---- MODULE Spec2Model ----
(***************************************************************************)
(* A model of monobump: the dependency cascade of src/src/Cascade.ts       *)
(* (upward to dependents, downward to changed dependencies), the version   *)
(* bump engine and bumpPackages of src/src/Bump.ts (and of the variant in  *)
(* src/unnamed/part_005), the change detection of src/src/Detect.ts and    *)
(* runBump of src/unnamed/part_002 with its git operations.                *)
(*                                                                         *)
(* Sets of the program (JavaScript Set, Map) keep insertion order, and the *)
(* loops of the cascade iterate in that order, so they are modelled as     *)
(* duplicate-free sequences.  Version strings are sequences of one         *)
(* character strings, parsed and formatted as the code does.               *)
(***************************************************************************)
EXTENDS Integers, Sequences, FiniteSets, TLC

\* ------------------------------------------------------------------------
\* Bounds of the model
\* ------------------------------------------------------------------------

\* Largest number of workspace dependency declarations in the whole workspace.
MaxEdges == 3

\* Largest number of bumpVersion calls applied in a row to one version.
MaxBumps == 2

\* Largest number of directives applied in one prerelease cycle.
MaxCycle == 4

\* Largest number of failing VCS commands and manifest reads or writes in a run.
MaxFaults == 1

\* Largest number of runs of the tool that follow each other.
MaxRuns == 2

\* Version components and prerelease numbers of the input versions are 0..MaxNum
\* (and 9, for the carry into a second digit).
MaxNum == 1

\* The workspace packages, in discovery order (the order of `packages`).
PackageNames == <<"a", "b", "c">>

Names == {PackageNames[i] : i \in DOMAIN PackageNames}

\* undefined / null of the program
None == "<none>"

Range(s) == {s[i] : i \in DOMAIN s}

\* Duplicate-free sequences over S (what iterating a Set yields).
OrderedSets(S) ==
  UNION {{s \in [1..n -> S] : \A i, j \in 1..n : i # j => s[i] # s[j]} :
           n \in 0..Cardinality(S)}

RECURSIVE SumLen(_, _)
SumLen(f, S) ==
  IF S = {} THEN 0
  ELSE LET x == CHOOSE y \in S : TRUE IN Len(f[x]) + SumLen(f, S \ {x})

VARIABLES
  packages,          \* Package[]: records [name, private], discovery order
  workspaceDeps,     \* per package, its "workspace:" dependencies in manifest order
  changedPackages,   \* the ChangeSet handed to the cascade
  specifiedPackages, \* the requested packages (downward mode), in request order
  mode,              \* "none" | "upward" | "downward"
  pc,                \* position of the running cascade
  graph,             \* Map<string, PackageWithDeps>, in insertion order
  toBump,            \* allAffected / toBump, in insertion order
  dependencyReasons, \* findDependents: package -> the dependency that triggered it
  reasons,           \* the returned reasons map
  hasChanges,        \* the loop flag of both cascade loops
  passes,            \* how many passes of the while loop have run
  variant,           \* which source of bumpVersion runs: "Bump.ts" or "part_005"
  version,           \* the current version string
  oldVersion,        \* the argument of the last bumpVersion call
  bumpType,          \* the directive of the last bumpVersion call
  bumpThrew,         \* the last bumpVersion call threw "Invalid version"
  bumps,             \* how many bumpVersion calls have been made
  startVersion,      \* the version a sequence of directives started from
  directives,        \* the directives applied to startVersion so far, in order
  manifests,         \* per package, the members of its package.json in file order
  manifestsBefore,   \* the manifests when the run (or the bumpPackages call) started
  options,           \* CliOptions: type, dryRun, changelog, commit, tag, push, packages
  results,           \* BumpResult[] of bumpPackages
  bpIndex,           \* bumpPackages of Bump.ts: index of the next package of the loop
  pending,           \* bumpPackages of part_005: packages whose update has not settled
  inFlight,          \* part_005: the manifest each update has read and not yet written
  failure,           \* the error the run was rejected with, None when there is none
  step,              \* position of runBump
  log,               \* the VCS queries and the side effects of the run, in order
  tags,              \* the tags of the repository: [package, version, commit]
  head,              \* number of commits of the branch (HEAD is commit number head)
  lastTouched,       \* per package, the last commit that changed a file of it
  dirty,             \* packages with a manifest written and not yet committed
  runs,              \* how many runs have been started
  faults,            \* how many commands and file operations may still fail
  markers,           \* per package, the tag the detection of this run compared with
  diffFailed,        \* the packages whose diff failed in the detection of this run
  lookupFailed,      \* the packages whose tag lookup failed in the detection of this run
  lastRun            \* what the previous run detected, bumped and tagged

cascadeVars ==
  <<packages, workspaceDeps, changedPackages, specifiedPackages, mode, pc,
    graph, toBump, dependencyReasons, reasons, hasChanges, passes>>

bumpVars == <<variant, version, oldVersion, bumpType, bumpThrew, bumps>>

cycleVars == <<startVersion, directives>>

planVars ==
  <<manifests, manifestsBefore, options, results, bpIndex, pending, inFlight, failure>>

vcsVars == <<tags, head, lastTouched, runs, markers, diffFailed, lookupFailed, lastRun>>

runVars == <<step, log, dirty, faults, vcsVars>>

extVars == <<cycleVars, planVars, runVars>>

vars == <<cascadeVars, bumpVars, extVars>>

\* ------------------------------------------------------------------------
\* Set and Map of the program
\* ------------------------------------------------------------------------

has(set, x) == x \in Range(set)

add(set, x) == IF has(set, x) THEN set ELSE Append(set, x)

EmptyMap == [x \in {} |-> None]

mapSet(m, k, v) == [x \in DOMAIN m \cup {k} |-> IF x = k THEN v ELSE m[x]]

\* ------------------------------------------------------------------------
\* Cascade.ts
\* ------------------------------------------------------------------------

\* mutant: the private packages are not filtered out
getAllPackages(pkgs) ==
  [packages |-> pkgs, names |-> {pkgs[i].name : i \in DOMAIN pkgs}]

getPublicPackages(pkgs) ==
  LET publicPackages == SelectSeq(pkgs, LAMBDA pkg : ~pkg.private)
  IN  [packages |-> publicPackages,
       names |-> {publicPackages[i].name : i \in DOMAIN publicPackages}]

getWorkspaceDeps(pkgPath) == workspaceDeps[pkgPath]

buildDependencyGraph(pkgs) ==
  [i \in DOMAIN pkgs |->
     [name |-> pkgs[i].name, dependencies |-> getWorkspaceDeps(pkgs[i].name)]]

\* graph.has(name)
graphHas(g, name) == \E i \in DOMAIN g : g[i].name = name

\* graph.get(name), for a name the graph has
graphGet(g, name) == g[CHOOSE i \in DOMAIN g : g[i].name = name]

\* mutant: the last affected dependency is taken, not the first
findAffectedDepLast(deps, allAffected) ==
  IF \E i \in DOMAIN deps : has(allAffected, deps[i])
  THEN deps[CHOOSE i \in DOMAIN deps :
              /\ has(allAffected, deps[i])
              /\ \A j \in (i + 1)..Len(deps) : ~has(allAffected, deps[j])]
  ELSE None

\* [...pkg.dependencies].find(dep => allAffected.has(dep))
findAffectedDep(deps, allAffected) ==
  IF \E i \in DOMAIN deps : has(allAffected, deps[i])
  THEN deps[CHOOSE i \in DOMAIN deps :
              /\ has(allAffected, deps[i])
              /\ \A j \in 1..(i - 1) : ~has(allAffected, deps[j])]
  ELSE None

\* mutant: a package that is already affected also sets hasChanges
RECURSIVE findDependentsPassFlagsKnown(_, _, _)
findDependentsPassFlagsKnown(g, i, st) ==
  IF i > Len(g) THEN st
  ELSE
    LET pkgName == g[i].name
        affectedDep == findAffectedDep(g[i].dependencies, st.allAffected)
    IN  IF has(st.allAffected, pkgName)
        THEN findDependentsPassFlagsKnown(g, i + 1, [st EXCEPT !.hasChanges = TRUE])
        ELSE IF affectedDep # None
        THEN findDependentsPassFlagsKnown(g, i + 1,
               [allAffected |-> add(st.allAffected, pkgName),
                dependencyReasons |-> mapSet(st.dependencyReasons, pkgName, affectedDep),
                hasChanges |-> TRUE])
        ELSE findDependentsPassFlagsKnown(g, i + 1, st)

\* One pass of the for loop of findDependents, from entry i of the graph on.
RECURSIVE findDependentsPass(_, _, _)
findDependentsPass(g, i, st) ==
  IF i > Len(g) THEN st
  ELSE
    LET pkgName == g[i].name
        affectedDep == findAffectedDep(g[i].dependencies, st.allAffected)
    IN  IF has(st.allAffected, pkgName) THEN findDependentsPass(g, i + 1, st)
        ELSE IF affectedDep # None
        THEN findDependentsPass(g, i + 1,
               [allAffected |-> add(st.allAffected, pkgName),
                dependencyReasons |-> mapSet(st.dependencyReasons, pkgName, affectedDep),
                hasChanges |-> TRUE])
        ELSE findDependentsPass(g, i + 1, st)

\* The walk of buildDependencyChain.  A walk that would not end is cut off
\* after more steps than depReasons has keys; such a chain is longer than
\* Cardinality(DOMAIN depReasons).
RECURSIVE chainWalk(_, _, _)
chainWalk(current, depReasons, chain) ==
  IF current \in DOMAIN depReasons /\ Len(chain) <= Cardinality(DOMAIN depReasons)
  THEN chainWalk(depReasons[current], depReasons, Append(chain, depReasons[current]))
  ELSE chain

\* mutant: the chain stops at the direct trigger
buildDirectTriggerOnly(pkgName, depReasons) ==
  IF pkgName \in DOMAIN depReasons THEN <<depReasons[pkgName]>> ELSE <<>>

buildDependencyChain(pkgName, depReasons) == chainWalk(pkgName, depReasons, <<>>)

\* The reason strings, kept structured: "changed", "specified",
\* "dependency of <chain[1]>", "depends on <chain joined by ' -> '>".
reasonChanged == [kind |-> "changed", chain |-> <<>>]
reasonSpecified == [kind |-> "specified", chain |-> <<>>]
reasonDependencyOf(pkgName) == [kind |-> "dependency of", chain |-> <<pkgName>>]
reasonDependsOn(chain) == [kind |-> "depends on", chain |-> chain]

buildReasonStrings(affected, changed, depReasons) ==
  [pkgName \in Range(affected) |->
     IF pkgName \in changed THEN reasonChanged
     ELSE reasonDependsOn(buildDependencyChain(pkgName, depReasons))]

\* changedPackages filtered to public names (getPackagesToBump)
changedPublicOf(pkgs, changed) == changed \cap getPublicPackages(pkgs).names

\* mutant: only the requested packages that have changes are kept
specifiedPublicChangedOnly(pkgs, specified) ==
  SelectSeq(specified,
    LAMBDA name : name \in changedPackages /\ ~(\E i \in DOMAIN pkgs :
                    pkgs[i].name = name /\ pkgs[i].private))

\* specifiedPackages filtered to public names (getPackagesWithChangedDeps)
specifiedPublicOf(pkgs, specified) ==
  SelectSeq(specified, LAMBDA name : name \in getPublicPackages(pkgs).names)

\* mutant: a changed dependency that is already in toBump also sets hasChanges
RECURSIVE changedDepsOfFlagsKnown(_, _, _, _, _)
changedDepsOfFlagsKnown(pkgName, deps, j, changed, st) ==
  IF j > Len(deps) THEN st
  ELSE
    LET depName == deps[j]
    IN  IF depName \in changed
        THEN changedDepsOfFlagsKnown(pkgName, deps, j + 1, changed,
               [toBump |-> add(st.toBump, depName),
                reasons |-> IF has(st.toBump, depName) THEN st.reasons
                            ELSE mapSet(st.reasons, depName, reasonDependencyOf(pkgName)),
                hasChanges |-> TRUE])
        ELSE changedDepsOfFlagsKnown(pkgName, deps, j + 1, changed, st)

\* mutant: the reason of a changed dependency is set again by every requester
RECURSIVE changedDepsOfOverwrites(_, _, _, _, _)
changedDepsOfOverwrites(pkgName, deps, j, changed, st) ==
  IF j > Len(deps) THEN st
  ELSE
    LET depName == deps[j]
    IN  IF depName \in changed
        THEN changedDepsOfOverwrites(pkgName, deps, j + 1, changed,
               [toBump |-> add(st.toBump, depName),
                reasons |-> mapSet(st.reasons, depName, reasonDependencyOf(pkgName)),
                hasChanges |-> st.hasChanges \/ ~has(st.toBump, depName)])
        ELSE changedDepsOfOverwrites(pkgName, deps, j + 1, changed, st)

\* The inner for loop of getPackagesWithChangedDeps over pkg.dependencies.
RECURSIVE changedDepsOf(_, _, _, _, _)
changedDepsOf(pkgName, deps, j, changed, st) ==
  IF j > Len(deps) THEN st
  ELSE
    LET depName == deps[j]
    IN  IF depName \in changed /\ ~has(st.toBump, depName)
        THEN changedDepsOf(pkgName, deps, j + 1, changed,
               [toBump |-> add(st.toBump, depName),
                reasons |-> mapSet(st.reasons, depName, reasonDependencyOf(pkgName)),
                hasChanges |-> TRUE])
        ELSE changedDepsOf(pkgName, deps, j + 1, changed, st)

\* One pass of the outer for loop over the snapshot [...toBump].
RECURSIVE changedDepsPass(_, _, _, _, _)
changedDepsPass(g, snapshot, i, changed, st) ==
  IF i > Len(snapshot) THEN st
  ELSE
    LET pkg == graphGet(g, snapshot[i])
    IN  IF ~graphHas(g, snapshot[i]) THEN changedDepsPass(g, snapshot, i + 1, changed, st)
        ELSE changedDepsPass(g, snapshot, i + 1, changed,
               changedDepsOf(snapshot[i], pkg.dependencies, 1, changed, st))

\* ------------------------------------------------------------------------
\* Bump.ts: strings and numbers
\* ------------------------------------------------------------------------

Digits == <<"0", "1", "2", "3", "4", "5", "6", "7", "8", "9">>

\* \d
isDigit(c) == c \in Range(Digits)

digitValue(c) == (CHOOSE i \in DOMAIN Digits : Digits[i] = c) - 1

\* Number(text) for a text of digits
RECURSIVE Number(_)
Number(text) ==
  IF text = <<>> THEN 0
  ELSE Number(SubSeq(text, 1, Len(text) - 1)) * 10 + digitValue(text[Len(text)])

\* `${n}` for a number n >= 0
RECURSIVE numberToString(_)
numberToString(n) ==
  IF n < 10 THEN <<Digits[n + 1]>>
  ELSE numberToString(n \div 10) \o <<Digits[(n % 10) + 1]>>

\* Where the longest run of digits that starts at position i ends (i - 1: no digit).
RECURSIVE digitsEnd(_, _)
digitsEnd(text, i) ==
  IF i <= Len(text) /\ isDigit(text[i]) THEN digitsEnd(text, i + 1) ELSE i - 1

charAt(text, i) == IF i \in DOMAIN text THEN text[i] ELSE None

\* version.match(/^(\d+)\.(\d+)\.(\d+)(?:-(a|b|rc)(\d+))?$/)
versionMatch(text) ==
  LET e1 == digitsEnd(text, 1)
      e2 == digitsEnd(text, e1 + 2)
      e3 == digitsEnd(text, e2 + 2)
      base == /\ e1 >= 1
              /\ charAt(text, e1 + 1) = "."
              /\ e2 >= e1 + 2
              /\ charAt(text, e2 + 1) = "."
              /\ e3 >= e2 + 2
      preLen == IF charAt(text, e3 + 2) \in {"a", "b"} THEN 1
                ELSE IF charAt(text, e3 + 2) = "r" /\ charAt(text, e3 + 3) = "c" THEN 2
                ELSE 0
      e4 == digitsEnd(text, e3 + 2 + preLen)
      pre == /\ charAt(text, e3 + 1) = "-"
             /\ preLen > 0
             /\ e4 >= e3 + 2 + preLen
             /\ e4 = Len(text)
  IN  IF base /\ (e3 = Len(text) \/ pre)
      THEN [matched |-> TRUE,
            major |-> SubSeq(text, 1, e1),
            minor |-> SubSeq(text, e1 + 2, e2),
            patch |-> SubSeq(text, e2 + 2, e3),
            preType |-> IF e3 = Len(text) THEN <<>>
                        ELSE SubSeq(text, e3 + 2, e3 + 1 + preLen),
            preNum |-> IF e3 = Len(text) THEN <<>>
                       ELSE SubSeq(text, e3 + 2 + preLen, e4)]
      ELSE [matched |-> FALSE, major |-> <<>>, minor |-> <<>>, patch |-> <<>>,
            preType |-> <<>>, preNum |-> <<>>]

PrereleaseTypes == {"alpha", "beta", "rc"}

StableTypes == {"major", "minor", "patch"}

BumpTypes == StableTypes \cup PrereleaseTypes

prereleasePrefix == [alpha |-> <<"a">>, beta |-> <<"b">>, rc |-> <<"r", "c">>]

\* typeMap / prefixToType
typeMap(preType) == CHOOSE t \in PrereleaseTypes : prereleasePrefix[t] = preType

\* ParsedVersion.prerelease when it is absent
NoPrerelease == [type |-> None, num |-> 0]

hasPrerelease(v) == v.prerelease.type # None

ParseFailure ==
  [threw |-> TRUE, major |-> 0, minor |-> 0, patch |-> 0, prerelease |-> NoPrerelease]

parseVersion(text) ==
  LET match == versionMatch(text)
  IN  IF ~match.matched THEN ParseFailure
      ELSE [threw |-> FALSE,
            major |-> Number(match.major),
            minor |-> Number(match.minor),
            patch |-> Number(match.patch),
            prerelease |->
              IF match.preType # <<>>
              THEN [type |-> typeMap(match.preType), num |-> Number(match.preNum)]
              ELSE NoPrerelease]

\* mutant: the prerelease follows the base without the "-"
formatVersionNoDash(v) ==
  LET base == numberToString(v.major) \o <<".">> \o numberToString(v.minor)
                \o <<".">> \o numberToString(v.patch)
  IN  IF hasPrerelease(v)
      THEN base \o prereleasePrefix[v.prerelease.type] \o numberToString(v.prerelease.num)
      ELSE base

formatVersion(v) ==
  LET base == numberToString(v.major) \o <<".">> \o numberToString(v.minor)
                \o <<".">> \o numberToString(v.patch)
  IN  IF hasPrerelease(v)
      THEN base \o <<"-">> \o prereleasePrefix[v.prerelease.type]
             \o numberToString(v.prerelease.num)
      ELSE base

\* a thrown Error("Invalid version: ...") / a returned string
Threw == [threw |-> TRUE, value |-> <<>>]
Returned(text) == [threw |-> FALSE, value |-> text]

\* ------------------------------------------------------------------------
\* Bump.ts: bumpVersion of src/src/Bump.ts
\* ------------------------------------------------------------------------

\* mutant: patch on a prerelease version increments patch while graduating
stableFromPrereleaseBumpsPatch(v, type) ==
  formatVersion(
    IF type = "minor"
    THEN [v EXCEPT !.prerelease = NoPrerelease, !.minor = v.minor + 1, !.patch = 0]
    ELSE IF type = "major"
    THEN [v EXCEPT !.prerelease = NoPrerelease, !.major = v.major + 1,
                   !.minor = 0, !.patch = 0]
    ELSE [v EXCEPT !.prerelease = NoPrerelease, !.patch = v.patch + 1])

\* `if (v.prerelease) { delete v.prerelease; ... return formatVersion(v) }`
stableFromPrerelease(v, type) ==
  formatVersion(
    IF type = "minor"
    THEN [v EXCEPT !.prerelease = NoPrerelease, !.minor = v.minor + 1, !.patch = 0]
    ELSE IF type = "major"
    THEN [v EXCEPT !.prerelease = NoPrerelease, !.major = v.major + 1,
                   !.minor = 0, !.patch = 0]
    ELSE [v EXCEPT !.prerelease = NoPrerelease])

\* mutant: the minor bump does not reset patch
stableFromStableKeepsPatch(v, type) ==
  IF type = "major"
  THEN numberToString(v.major + 1) \o <<".", "0", ".", "0">>
  ELSE IF type = "minor"
  THEN numberToString(v.major) \o <<".">> \o numberToString(v.minor + 1) \o <<".">>
         \o numberToString(v.patch)
  ELSE numberToString(v.major) \o <<".">> \o numberToString(v.minor) \o <<".">>
         \o numberToString(v.patch + 1)

\* `switch (type)`: the normal stable bump
stableFromStable(v, type) ==
  IF type = "major"
  THEN numberToString(v.major + 1) \o <<".", "0", ".", "0">>
  ELSE IF type = "minor"
  THEN numberToString(v.major) \o <<".">> \o numberToString(v.minor + 1) \o <<".", "0">>
  ELSE numberToString(v.major) \o <<".">> \o numberToString(v.minor) \o <<".">>
         \o numberToString(v.patch + 1)

\* mutant: a prerelease started from a stable version keeps the base version
prereleaseFromAnyKeepsBase(v, prereleaseType) ==
  formatVersion(
    IF hasPrerelease(v) /\ v.prerelease.type = prereleaseType
    THEN [v EXCEPT !.prerelease.num = v.prerelease.num + 1]
    ELSE [v EXCEPT !.prerelease = [type |-> prereleaseType, num |-> 1]])

\* the prerelease bumps (alpha/beta/rc)
prereleaseFromAny(v, prereleaseType) ==
  formatVersion(
    IF hasPrerelease(v)
    THEN IF v.prerelease.type = prereleaseType
         THEN [v EXCEPT !.prerelease.num = v.prerelease.num + 1]
         ELSE [v EXCEPT !.prerelease = [type |-> prereleaseType, num |-> 1]]
    ELSE [v EXCEPT !.minor = v.minor + 1, !.patch = 0,
                   !.prerelease = [type |-> prereleaseType, num |-> 1]])

bumpVersion(text, type) ==
  LET v == parseVersion(text)
  IN  IF v.threw THEN Threw
      ELSE IF type \in StableTypes
      THEN IF hasPrerelease(v) THEN Returned(stableFromPrerelease(v, type))
           ELSE Returned(stableFromStable(v, type))
      ELSE Returned(prereleaseFromAny(v, type))

\* ------------------------------------------------------------------------
\* bumpVersion of src/unnamed/part_005 (split into helpers)
\* ------------------------------------------------------------------------

isStableBump(type) == type = "major" \/ type = "minor" \/ type = "patch"

\* mutant: patch on a prerelease bumps patch as on a stable version
graduateBumpsPatch(ver, type) ==
  IF type = "patch" THEN [ver EXCEPT !.patch = ver.patch + 1, !.prerelease = NoPrerelease]
  ELSE IF type = "minor"
  THEN [ver EXCEPT !.minor = ver.minor + 1, !.patch = 0, !.prerelease = NoPrerelease]
  ELSE [threw |-> FALSE, major |-> ver.major + 1, minor |-> 0, patch |-> 0,
        prerelease |-> NoPrerelease]

graduateToStable(ver, type) ==
  IF type = "patch" THEN [ver EXCEPT !.prerelease = NoPrerelease]
  ELSE IF type = "minor"
  THEN [ver EXCEPT !.minor = ver.minor + 1, !.patch = 0, !.prerelease = NoPrerelease]
  ELSE [threw |-> FALSE, major |-> ver.major + 1, minor |-> 0, patch |-> 0,
        prerelease |-> NoPrerelease]

applyStableBump(ver, type) ==
  IF type = "major"
  THEN [threw |-> FALSE, major |-> ver.major + 1, minor |-> 0, patch |-> 0,
        prerelease |-> NoPrerelease]
  ELSE IF type = "minor" THEN [ver EXCEPT !.minor = ver.minor + 1, !.patch = 0]
  ELSE [ver EXCEPT !.patch = ver.patch + 1]

\* mutant: a change of channel keeps the prerelease number
applyPrereleaseBumpKeepsNum(ver, type) ==
  IF ver.prerelease.type = type
  THEN [ver EXCEPT !.prerelease = [type |-> type, num |-> ver.prerelease.num + 1]]
  ELSE IF hasPrerelease(ver)
  THEN [ver EXCEPT !.prerelease = [type |-> type, num |-> ver.prerelease.num]]
  ELSE [ver EXCEPT !.minor = ver.minor + 1, !.patch = 0,
                   !.prerelease = [type |-> type, num |-> 1]]

applyPrereleaseBump(ver, type) ==
  IF ver.prerelease.type = type
  THEN [ver EXCEPT !.prerelease = [type |-> type, num |-> ver.prerelease.num + 1]]
  ELSE IF hasPrerelease(ver)
  THEN [ver EXCEPT !.prerelease = [type |-> type, num |-> 1]]
  ELSE [ver EXCEPT !.minor = ver.minor + 1, !.patch = 0,
                   !.prerelease = [type |-> type, num |-> 1]]

bumpVersionSplit(text, type) ==
  LET parsed == parseVersion(text)
  IN  IF parsed.threw THEN Threw
      ELSE IF isStableBump(type)
      THEN Returned(formatVersion(
             IF hasPrerelease(parsed) THEN graduateToStable(parsed, type)
             ELSE applyStableBump(parsed, type)))
      ELSE Returned(formatVersion(applyPrereleaseBump(parsed, type)))

\* ------------------------------------------------------------------------
\* The version bump engine as a state machine
\* ------------------------------------------------------------------------

Dot(a, b) == a \o <<".">> \o b

Numerals == {numberToString(n) : n \in 0..MaxNum} \cup {<<"9">>, <<"0", "1">>}

Components == Numerals \cup {<<>>, <<"x">>}

InputPrefixes == {<<"a">>, <<"b">>, <<"r", "c">>, <<>>, <<"r">>, <<"x">>}

InputSuffixes ==
  {<<>>} \cup {<<"-">> \o p \o n : p \in InputPrefixes, n \in Numerals \cup {<<>>}}

InputVersions ==
  {Dot(Dot(c1, c2), c3) \o sfx : c1 \in Components, c2 \in Components,
                                 c3 \in Components, sfx \in InputSuffixes}
  \cup {Dot(c1, c2) \o sfx : c1 \in Numerals, c2 \in Numerals, sfx \in InputSuffixes}
  \cup {<<"i", "n", "v", "a", "l", "i", "d">>,
        <<"1", ".", "2", ".", "3", ".", "4">>,
        <<"v", "1", ".", "2", ".", "3">>,
        <<"1", ".", "2", ".", "3", "a", "1">>,
        <<"1", ".", "2", ".", "3", "-", "a", "1", "x">>,
        <<"1", ".", "2", ".", "3", "-", "a", "-", "1">>,
        <<"1", ".", "2", ".", "3", "-", "r", "c", "1", "0">>}

CascadeIdle ==
  /\ packages = <<>>
  /\ workspaceDeps = EmptyMap
  /\ changedPackages = {}
  /\ specifiedPackages = <<>>
  /\ mode = "none"
  /\ pc = "idle"
  /\ graph = <<>>
  /\ toBump = <<>>
  /\ dependencyReasons = EmptyMap
  /\ reasons = EmptyMap
  /\ hasChanges = FALSE
  /\ passes = 0

CycleIdle ==
  /\ startVersion = <<>>
  /\ directives = <<>>

NoRun ==
  [changed |-> {}, toBump |-> {}, tagged |-> {}, markers |-> EmptyMap, released |-> FALSE]

NoOptions ==
  [type |-> None, dryRun |-> FALSE, changelog |-> FALSE, commit |-> FALSE,
   tag |-> FALSE, push |-> FALSE, packages |-> <<>>]

PlanIdle ==
  /\ manifests = EmptyMap
  /\ manifestsBefore = EmptyMap
  /\ options = NoOptions
  /\ results = <<>>
  /\ bpIndex = 0
  /\ pending = {}
  /\ inFlight = EmptyMap
  /\ failure = None

RunIdle ==
  /\ step = "idle"
  /\ log = <<>>
  /\ tags = {}
  /\ head = 0
  /\ lastTouched = EmptyMap
  /\ dirty = {}
  /\ runs = 0
  /\ faults = 0
  /\ markers = EmptyMap
  /\ diffFailed = {}
  /\ lookupFailed = {}
  /\ lastRun = NoRun

ExtIdle == CycleIdle /\ PlanIdle /\ RunIdle

BumpIdle ==
  /\ variant = None
  /\ version = <<>>
  /\ oldVersion = <<>>
  /\ bumpType = None
  /\ bumpThrew = FALSE
  /\ bumps = 0

InitBump ==
  /\ CascadeIdle
  /\ ExtIdle
  /\ variant \in {"Bump.ts", "part_005"}
  /\ version \in InputVersions
  /\ oldVersion = <<>>
  /\ bumpType = None
  /\ bumpThrew = FALSE
  /\ bumps = 0

\* one call newVersion = bumpVersion(version, type); a throw ends the run
BumpVersion ==
  /\ bumps < MaxBumps
  /\ ~bumpThrew
  /\ variant # None
  /\ \E type \in BumpTypes :
       LET r == IF variant = "Bump.ts" THEN bumpVersion(version, type)
                ELSE bumpVersionSplit(version, type)
       IN  /\ bumpType' = type
           /\ oldVersion' = version
           /\ bumpThrew' = r.threw
           /\ version' = IF r.threw THEN version ELSE r.value
  /\ bumps' = bumps + 1
  /\ UNCHANGED <<cascadeVars, variant, extVars>>

NextBump == BumpVersion

\* ------------------------------------------------------------------------
\* A prerelease cycle: channel directives and patch applied to a stable version
\* ------------------------------------------------------------------------

\* the stable versions a cycle starts from (0.7.0 is the example of the tests)
StableInputs ==
  {v \in InputVersions : ~parseVersion(v).threw /\ ~hasPrerelease(parseVersion(v))}
  \cup {<<"0", ".", "7", ".", "0">>}

CycleDirectives == PrereleaseTypes \cup {"patch"}

InitCycle ==
  /\ CascadeIdle
  /\ variant \in {"Bump.ts", "part_005"}
  /\ version \in StableInputs
  /\ startVersion = version
  /\ directives = <<>>
  /\ PlanIdle
  /\ RunIdle
  /\ oldVersion = <<>>
  /\ bumpType = None
  /\ bumpThrew = FALSE
  /\ bumps = 0

\* one call version = bumpVersion(version, type) of a sequence of releases of
\* one package; the sequence is followed until a patch directive has been applied
CycleDirective ==
  /\ Len(directives) < MaxCycle
  /\ ~bumpThrew
  /\ variant # None
  /\ startVersion # <<>>
  /\ IF directives = <<>> THEN TRUE ELSE directives[Len(directives)] # "patch"
  /\ \E type \in CycleDirectives :
       LET r == IF variant = "Bump.ts" THEN bumpVersion(version, type)
                ELSE bumpVersionSplit(version, type)
       IN  /\ bumpType' = type
           /\ oldVersion' = version
           /\ bumpThrew' = r.threw
           /\ version' = IF r.threw THEN version ELSE r.value
           /\ directives' = Append(directives, type)
  /\ bumps' = bumps + 1
  /\ UNCHANGED <<cascadeVars, variant, startVersion, planVars, runVars>>

NextCycle == CycleDirective

SpecCycle == InitCycle /\ [][NextCycle]_vars

\* ------------------------------------------------------------------------
\* The cascade as a state machine
\* ------------------------------------------------------------------------

DepLists == OrderedSets(Names)

Workspaces ==
  {pkgs \in [DOMAIN PackageNames -> [name : Names, private : BOOLEAN]] :
     \A i \in DOMAIN PackageNames : pkgs[i].name = PackageNames[i]}

RequestedLists == OrderedSets(Names) \ {<<>>}

InitCascade ==
  /\ packages \in Workspaces
  /\ workspaceDeps \in {d \in [Names -> DepLists] : SumLen(d, Names) <= MaxEdges}
  /\ changedPackages \in SUBSET Names
  /\ specifiedPackages = <<>>
  /\ mode = "none"
  /\ pc = "start"
  /\ graph = <<>>
  /\ toBump = <<>>
  /\ dependencyReasons = EmptyMap
  /\ reasons = EmptyMap
  /\ hasChanges = FALSE
  /\ passes = 0
  /\ BumpIdle
  /\ ExtIdle

\* getPackagesToBump up to the loop of findDependents
StartUpward ==
  /\ pc = "start"
  /\ mode' = "upward"
  /\ graph' = buildDependencyGraph(getPublicPackages(packages).packages)
  /\ toBump' = SelectSeq(PackageNames,
                  LAMBDA n : n \in changedPublicOf(packages, changedPackages))
  /\ dependencyReasons' = EmptyMap
  /\ hasChanges' = TRUE
  /\ pc' = "findDependents"
  /\ UNCHANGED <<bumpVars, extVars, packages, workspaceDeps, changedPackages, specifiedPackages,
                 reasons, passes>>

\* one iteration of `while (hasChanges)` in findDependents
FindDependentsPass ==
  /\ pc = "findDependents"
  /\ hasChanges
  /\ LET st == findDependentsPass(graph, 1,
                 [allAffected |-> toBump,
                  dependencyReasons |-> dependencyReasons,
                  hasChanges |-> FALSE])
     IN  /\ toBump' = st.allAffected
         /\ dependencyReasons' = st.dependencyReasons
         /\ hasChanges' = st.hasChanges
  /\ passes' = passes + 1
  /\ UNCHANGED <<bumpVars, extVars, packages, workspaceDeps, changedPackages, specifiedPackages,
                 mode, pc, graph, reasons>>

\* the loop of findDependents ends; getPackagesToBump builds the reasons
FinishUpward ==
  /\ pc = "findDependents"
  /\ ~hasChanges
  /\ reasons' = buildReasonStrings(toBump,
                   changedPublicOf(packages, changedPackages), dependencyReasons)
  /\ pc' = "done"
  /\ UNCHANGED <<bumpVars, extVars, packages, workspaceDeps, changedPackages, specifiedPackages,
                 mode, graph, toBump, dependencyReasons, hasChanges, passes>>

\* getPackagesWithChangedDeps up to its loop
StartDownward ==
  /\ pc = "start"
  /\ \E requested \in RequestedLists :
       /\ specifiedPackages' = requested
       /\ toBump' = specifiedPublicOf(packages, requested)
       /\ reasons' = [pkgName \in Range(specifiedPublicOf(packages, requested)) |->
                        reasonSpecified]
  /\ mode' = "downward"
  /\ graph' = buildDependencyGraph(getPublicPackages(packages).packages)
  /\ hasChanges' = TRUE
  /\ pc' = "changedDeps"
  /\ UNCHANGED <<bumpVars, extVars, packages, workspaceDeps, changedPackages, dependencyReasons, passes>>

\* one iteration of `while (hasChanges)` in getPackagesWithChangedDeps
ChangedDepsPass ==
  /\ pc = "changedDeps"
  /\ hasChanges
  /\ LET st == changedDepsPass(graph, toBump, 1, changedPackages,
                 [toBump |-> toBump, reasons |-> reasons, hasChanges |-> FALSE])
     IN  /\ toBump' = st.toBump
         /\ reasons' = st.reasons
         /\ hasChanges' = st.hasChanges
  /\ passes' = passes + 1
  /\ UNCHANGED <<bumpVars, extVars, packages, workspaceDeps, changedPackages, specifiedPackages,
                 mode, pc, graph, dependencyReasons>>

\* the loop ends and getPackagesWithChangedDeps returns
FinishDownward ==
  /\ pc = "changedDeps"
  /\ ~hasChanges
  /\ pc' = "done"
  /\ UNCHANGED <<bumpVars, extVars, packages, workspaceDeps, changedPackages, specifiedPackages,
                 mode, graph, toBump, dependencyReasons, reasons, hasChanges, passes>>

NextCascade ==
  \/ StartUpward
  \/ FindDependentsPass
  \/ FinishUpward
  \/ StartDownward
  \/ ChangedDepsPass
  \/ FinishDownward

Init == InitCascade

Next == NextCascade

Spec == Init /\ [][Next]_vars

SpecBump == InitBump /\ [][NextBump]_vars

\* ------------------------------------------------------------------------
\* Properties of the cascade (checked under Spec)
\* ------------------------------------------------------------------------

Done == pc = "done"

toBumpSet == Range(toBump)

isPrivate(name) == \E i \in DOMAIN packages : packages[i].name = name /\ packages[i].private

PublicNames == {name \in Names : ~isPrivate(name)}

\* the workspace dependencies the manifest of a package declares
declaredDeps(name) == Range(workspaceDeps[name])

\* C1: no private package ever appears in toBump, in either cascade mode,
\* also when a public package of toBump depends on a changed private package.
C1_NoPrivateInToBump == \A name \in toBumpSet : ~isPrivate(name)

\* C2: downward mode: every requested package is in toBump, whatever the
\* ChangeSet is.
C2_SpecifiedInToBump ==
  mode = "downward" => Range(specifiedPackages) \subseteq toBumpSet

\* C2 (amended): downward mode: every requested public package is in toBump,
\* whatever the ChangeSet is; a requested private package is filtered out.
C2_SpecifiedPublicInToBump ==
  mode = "downward" => (Range(specifiedPackages) \cap PublicNames) \subseteq toBumpSet

C2_Witness ==
  /\ Done
  /\ mode = "downward"
  /\ passes >= 2
  /\ \E name \in Range(specifiedPackages) \cap PublicNames :
       name \notin changedPackages /\ name \in toBumpSet

\* S contains the requested public packages and, for each member, each of its
\* declared dependencies that is in the ChangeSet.
DownwardClosed(S) ==
  /\ (Range(specifiedPackages) \cap PublicNames) \subseteq S
  /\ \A P \in S : \A D \in declaredDeps(P) : D \in changedPackages => D \in S

\* C3: the downward result is the least fixed point: the smallest set that
\* contains the requested public packages and, for every member P, every
\* dependency D of P with D in the ChangeSet.
C3_DownwardLeastFixedPoint ==
  (Done /\ mode = "downward") =>
    /\ DownwardClosed(toBumpSet)
    /\ \A S \in SUBSET Names : DownwardClosed(S) => toBumpSet \subseteq S

\* Paths of workspace dependency edges whose every node is public.
PublicPaths ==
  {path \in UNION {[1..n -> PublicNames] : n \in 1..Cardinality(Names)} :
     \A i \in 1..(Len(path) - 1) : path[i + 1] \in declaredDeps(path[i])}

C5_UpwardReasons ==
  (Done /\ mode = "upward") =>
    /\ \A P \in toBumpSet :
         /\ P \in DOMAIN reasons
         /\ reasons[P] = reasonChanged <=> P \in PublicNames \cap changedPackages
         /\ P \notin PublicNames \cap changedPackages =>
              LET chain == reasons[P].chain
              IN  /\ reasons[P].kind = "depends on"
                  /\ Len(chain) >= 1
                  /\ Len(chain) <= Cardinality(DOMAIN dependencyReasons)
                  /\ chain[1] \in declaredDeps(P)
                  /\ \A i \in 1..(Len(chain) - 1) : chain[i + 1] \in declaredDeps(chain[i])
                  /\ \A i \in 1..Len(chain) : chain[i] \in toBumpSet
                  /\ chain[Len(chain)] \in PublicNames \cap changedPackages
    /\ ( /\ PublicNames = Names
         /\ changedPackages = {"a"}
         /\ workspaceDeps = [a |-> <<>>, b |-> <<"a">>, c |-> <<"b">>] )
       => reasons["c"] = reasonDependsOn(<<"b", "a">>)

\* a chain of two steps whose first step depends back on the package (a cycle)
C5_Witness ==
  /\ Done
  /\ mode = "upward"
  /\ \E P \in toBumpSet :
       /\ Len(reasons[P].chain) = 2
       /\ P \in declaredDeps(reasons[P].chain[1])

\* ------------------------------------------------------------------------
\* Properties of the version bump engine (checked under SpecBump)
\* ------------------------------------------------------------------------

\* the last call's argument and result, read as versions
old == parseVersion(oldVersion)

new == parseVersion(version)

\* a bumpVersion call has been made on a version that parses
BumpedValid == bumps > 0 /\ ~old.threw

\* the text M.m.p
StableText(M, m, p) == Dot(Dot(numberToString(M), numberToString(m)), numberToString(p))

\* the channel prefixes of the transition table
ChannelPrefix(channel) ==
  CASE channel = "alpha" -> <<"a">>
    [] channel = "beta" -> <<"b">>
    [] channel = "rc" -> <<"r", "c">>

\* the text M.m.p-<prefix>N
PrereleaseText(M, m, p, channel, N) ==
  StableText(M, m, p) \o <<"-">> \o ChannelPrefix(channel) \o numberToString(N)

\* the named component is one more, the lower ones are 0, the higher ones keep
IncrementsNamed(o, n, type) ==
  CASE type = "major" -> n.major = o.major + 1 /\ n.minor = 0 /\ n.patch = 0
    [] type = "minor" -> n.major = o.major /\ n.minor = o.minor + 1 /\ n.patch = 0
    [] type = "patch" -> n.major = o.major /\ n.minor = o.minor /\ n.patch = o.patch + 1

\* C6: for any valid version and directive in {major, minor, patch}, bump
\* increments exactly the named component by 1, resets the lower ones to 0
\* and leaves the higher ones unchanged.
C6_StableDirectiveIncrements ==
  (BumpedValid /\ bumpType \in StableTypes) =>
    ~bumpThrew /\ ~new.threw /\ IncrementsNamed(old, new, bumpType)

\* C6 (amended): the same, except for patch applied to a prerelease version,
\* which leaves major, minor and patch as they are.
C6_StableDirectiveIncrementsOrGraduates ==
  (BumpedValid /\ bumpType \in StableTypes) =>
    /\ ~bumpThrew
    /\ ~new.threw
    /\ IF hasPrerelease(old) /\ bumpType = "patch"
       THEN new.major = old.major /\ new.minor = old.minor /\ new.patch = old.patch
       ELSE IncrementsNamed(old, new, bumpType)

\* a minor bump of a stable version whose patch was not 0
C6_Witness ==
  /\ BumpedValid
  /\ bumpType = "minor"
  /\ ~hasPrerelease(old)
  /\ old.patch > 0
  /\ new.minor = old.minor + 1
  /\ new.patch = 0

\* C7: a stable directive applied to a prerelease version M.m.p-cN yields a
\* stable version: patch M.m.p, minor M.(m+1).0, major (M+1).0.0, for every
\* channel c and number N.
C7_PrereleaseGraduates ==
  (BumpedValid /\ hasPrerelease(old) /\ bumpType \in StableTypes) =>
    /\ ~bumpThrew
    /\ version = CASE bumpType = "patch" -> StableText(old.major, old.minor, old.patch)
                   [] bumpType = "minor" -> StableText(old.major, old.minor + 1, 0)
                   [] bumpType = "major" -> StableText(old.major + 1, 0, 0)

\* rc9 graduates with patch
C7_Witness ==
  /\ BumpedValid
  /\ old.prerelease.type = "rc"
  /\ old.prerelease.num = 9
  /\ old.patch > 0
  /\ bumpType = "patch"
  /\ ~hasPrerelease(new)

\* C8: a channel directive applied to a stable version M.m.p yields
\* M.(m+1).0-<prefix>1 with prefix a, b or rc.
C8_ChannelFromStable ==
  (BumpedValid /\ ~hasPrerelease(old) /\ bumpType \in PrereleaseTypes) =>
    /\ ~bumpThrew
    /\ version = PrereleaseText(old.major, old.minor + 1, 0, bumpType, 1)

\* rc from a stable version whose patch was not 0
C8_Witness ==
  /\ BumpedValid
  /\ ~hasPrerelease(old)
  /\ old.patch > 0
  /\ bumpType = "rc"
  /\ new.prerelease = [type |-> "rc", num |-> 1]

\* C9: a channel directive applied to a prerelease version M.m.p-cN keeps
\* M.m.p: the same channel yields M.m.p-c(N+1), another channel d yields
\* M.m.p-d1, for every ordered pair of channels.
C9_ChannelFromPrerelease ==
  (BumpedValid /\ hasPrerelease(old) /\ bumpType \in PrereleaseTypes) =>
    /\ ~bumpThrew
    /\ version =
         IF bumpType = old.prerelease.type
         THEN PrereleaseText(old.major, old.minor, old.patch, bumpType,
                             old.prerelease.num + 1)
         ELSE PrereleaseText(old.major, old.minor, old.patch, bumpType, 1)

\* backward, rc9 to alpha
C9_Witness ==
  /\ BumpedValid
  /\ old.prerelease = [type |-> "rc", num |-> 9]
  /\ bumpType = "alpha"
  /\ new.prerelease = [type |-> "alpha", num |-> 1]

\* a nonempty text of digits
IsNumeral(text) == text # <<>> /\ \A i \in DOMAIN text : isDigit(text[i])

\* a numeral of a positive integer
IsPositiveNumeral(text) == IsNumeral(text) /\ \E i \in DOMAIN text : text[i] # "0"

\* MAJOR.MINOR.PATCH
IsStableShape(text) ==
  \E i, j \in DOMAIN text :
    /\ i < j
    /\ text[i] = "."
    /\ text[j] = "."
    /\ IsNumeral(SubSeq(text, 1, i - 1))
    /\ IsNumeral(SubSeq(text, i + 1, j - 1))
    /\ IsNumeral(SubSeq(text, j + 1, Len(text)))

\* MAJOR.MINOR.PATCH-{a|b|rc}N with N >= 1
IsPrereleaseShape(text) ==
  \E d \in DOMAIN text :
    /\ text[d] = "-"
    /\ IsStableShape(SubSeq(text, 1, d - 1))
    /\ \E prefix \in {<<"a">>, <<"b">>, <<"r", "c">>} :
         /\ d + Len(prefix) <= Len(text)
         /\ SubSeq(text, d + 1, d + Len(prefix)) = prefix
         /\ IsPositiveNumeral(SubSeq(text, d + Len(prefix) + 1, Len(text)))

\* C10: parsing accepts exactly MAJOR.MINOR.PATCH and
\* MAJOR.MINOR.PATCH-{a|b|rc}N with N >= 1; on every other input bump fails
\* with Invalid version and produces no result.
C10_ParsingAcceptsExactly ==
  bumps > 0 =>
    /\ bumpThrew <=> ~(IsStableShape(oldVersion) \/ IsPrereleaseShape(oldVersion))
    /\ bumpThrew => version = oldVersion

\* ------------------------------------------------------------------------
\* Claims about the prerelease cycle
\* ------------------------------------------------------------------------

start == parseVersion(startVersion)

\* how many times the last directive has been applied in a row at the end
RECURSIVE TrailingRun(_)
TrailingRun(ds) ==
  IF Len(ds) <= 1 THEN Len(ds)
  ELSE IF ds[Len(ds) - 1] = ds[Len(ds)] THEN 1 + TrailingRun(SubSeq(ds, 1, Len(ds) - 1))
  ELSE 1

\* the cycle was entered by a channel directive
InCycle == directives # <<>> /\ directives[1] \in PrereleaseTypes

LastDirective == directives[Len(directives)]

\* C11: from a stable M.m.p, after a channel directive and any number of
\* further channel directives the version is M.(m+1).0-<channel>k, k counting
\* the consecutive directives of the current channel, and a patch directive then
\* gives the stable M.(m+1).0.
C11_PrereleaseCycle ==
  InCycle =>
    /\ ~bumpThrew
    /\ IF LastDirective = "patch"
       THEN version = StableText(start.major, start.minor + 1, 0)
       ELSE version = PrereleaseText(start.major, start.minor + 1, 0, LastDirective,
                                     TrailingRun(directives))

C11_Witness ==
  /\ startVersion = <<"0", ".", "7", ".", "0">>
  /\ directives = <<"alpha", "alpha", "beta", "patch">>
  /\ oldVersion = <<"0", ".", "8", ".", "0", "-", "b", "1">>
  /\ version = <<"0", ".", "8", ".", "0">>

\* ------------------------------------------------------------------------
\* Claims about the termination of the cascade
\* ------------------------------------------------------------------------

Max(x, y) == IF x >= y THEN x ELSE y

\* C20 as stated: the upward loop runs at most |public packages| passes, the
\* final pass that adds nothing included.
C20_UpwardPassBound ==
  mode = "upward" => passes <= Cardinality(PublicNames)

\* C20: the upward loop ends on every graph: it runs at most
\* max(1, |public packages|) passes, the final pass that adds nothing included,
\* and while the cascade is not done it can take its next step.
C20_UpwardTerminates ==
  mode = "upward" =>
    /\ passes <= Max(1, Cardinality(PublicNames))
    /\ (pc = "findDependents" /\ hasChanges) => passes < Max(1, Cardinality(PublicNames))
    /\ pc # "done" => ENABLED (FindDependentsPass \/ FinishUpward)

\* the bound is attained: a chain of three public packages, one depending on itself
C20_Witness ==
  /\ Done
  /\ mode = "upward"
  /\ Cardinality(PublicNames) = 3
  /\ passes = 3
  /\ \E n \in Names : n \in declaredDeps(n)
  /\ \A n \in Names : declaredDeps(n) # {}

\* s is an initial part of t (a Set only ever appends)
IsPrefix(s, t) == Len(s) <= Len(t) /\ SubSeq(t, 1, Len(s)) = s

\* the largest number of passes of the downward loop: every pass but the last
\* adds a package that was not requested
DownwardPassBound ==
  Cardinality(Names \ Range(specifiedPublicOf(packages, specifiedPackages))) + 1

\* C21: the downward loop ends on every graph, with dependency cycles and with
\* dependencies that have no entry in the graph: while the cascade is not done
\* it can take its next step, the number of passes is bounded, each pass either
\* adds a package to toBump or is the last one, and toBump only grows.
C21_DownwardTerminates ==
  /\ [](mode = "downward" =>
         /\ passes <= DownwardPassBound
         /\ pc # "done" => ENABLED (ChangedDepsPass \/ FinishDownward))
  /\ [][mode = "downward" =>
          /\ IsPrefix(toBump, toBump')
          /\ passes' # passes => (Len(toBump') > Len(toBump) \/ ~hasChanges')]_vars

\* the loop has run over a dependency cycle through a package that has no
\* entry in the graph
C21_Witness ==
  /\ Done
  /\ mode = "downward"
  /\ passes >= 2
  /\ \E P \in toBumpSet : \E Q \in toBumpSet :
       /\ ~graphHas(graph, P)
       /\ P \in declaredDeps(Q)
       /\ Q \in declaredDeps(P)

\* ------------------------------------------------------------------------
\* Manifests: package.json as JSON.parse and JSON.stringify see it
\* ------------------------------------------------------------------------

\* A manifest is the sequence of the members of its top-level object, in file
\* order.  A key is a sequence of symbols: an ordinary word is one symbol, an
\* integer-like key is its digits.
NameKey == <<"name">>

VersionKey == <<"version">>

PrivateKey == <<"private">>

Member(key, value) == [key |-> key, value |-> value]

hasKey(members, key) == \E i \in DOMAIN members : members[i].key = key

\* the value JSON.parse keeps for a key: the one of its last member
lastValue(members, key) ==
  members[CHOOSE i \in DOMAIN members :
            /\ members[i].key = key
            /\ \A j \in DOMAIN members : j > i => members[j].key # key].value

\* an integer-like property key (a canonical array index)
isArrayIndex(key) ==
  /\ key # <<>>
  /\ \A i \in DOMAIN key : isDigit(key[i])
  /\ Len(key) = 1 \/ key[1] # "0"

\* the keys of the members, each once, in the order of their first member
RECURSIVE ownKeys(_)
ownKeys(members) ==
  IF members = <<>> THEN <<>>
  ELSE add(ownKeys(SubSeq(members, 1, Len(members) - 1)), members[Len(members)].key)

RECURSIVE ascending(_)
ascending(indexKeys) ==
  IF indexKeys = {} THEN <<>>
  ELSE LET least == CHOOSE k \in indexKeys :
                      \A other \in indexKeys : Number(k) <= Number(other)
       IN  <<least>> \o ascending(indexKeys \ {least})

\* the order in which an object enumerates its own properties: integer-like
\* keys in ascending order, then the other keys in the order they were created
propertyOrder(keys) ==
  ascending({k \in Range(keys) : isArrayIndex(k)})
    \o SelectSeq(keys, LAMBDA k : ~isArrayIndex(k))

\* JSON.parse(content): the object, as its properties in enumeration order
jsonParse(members) ==
  LET keys == propertyOrder(ownKeys(members))
  IN  [i \in DOMAIN keys |-> Member(keys[i], lastValue(members, keys[i]))]

\* `object[key] = value`
setProperty(object, key, value) ==
  IF hasKey(object, key)
  THEN [i \in DOMAIN object |->
          IF object[i].key = key THEN Member(key, value) ELSE object[i]]
  ELSE jsonParse(Append(object, Member(key, value)))

\* JSON.stringify(object, null, 2): one member per property, in enumeration order
jsonStringify(object) == [i \in DOMAIN object |-> Member(object[i].key, object[i].value)]

\* mutant: the file is written back as it was read
writeBackUnchanged(content, newVersion) == jsonStringify(jsonParse(content))

\* the file content updatePackageVersion writes
updatePackageVersion(content, newVersion) ==
  jsonStringify(setProperty(jsonParse(content), VersionKey, newVersion))

DefaultVersion == <<"0", ".", "0", ".", "0">>

\* `version: pkg.version || "0.0.0"`
snapshotVersion(content) ==
  IF hasKey(content, VersionKey) /\ lastValue(content, VersionKey) # <<>>
  THEN lastValue(content, VersionKey)
  ELSE DefaultVersion

\* `private: pkg.private`
snapshotPrivate(content) ==
  hasKey(content, PrivateKey) /\ lastValue(content, PrivateKey) = <<"true">>

\* findWorkspacePackages: the snapshot of the named packages, in discovery order
snapshotOf(names, files) ==
  [i \in DOMAIN names |->
     [name |-> names[i],
      private |-> snapshotPrivate(files[names[i]]),
      version |-> snapshotVersion(files[names[i]])]]

\* ------------------------------------------------------------------------
\* bumpPackages: src/src/Bump.ts (one package after the other) and
\* src/unnamed/part_005 (all versions first, then the updates at once)
\* ------------------------------------------------------------------------

InvalidVersion == "Invalid version"

ManifestFailure == "manifest I/O failure"

\* mutant: a package without an entry in reasons is reported as specified
BumpResultSpecified(pkg, newVersion) ==
  [package |-> pkg.name,
   oldVersion |-> pkg.version,
   newVersion |-> newVersion,
   reason |-> IF pkg.name \in DOMAIN reasons THEN reasons[pkg.name] ELSE reasonSpecified]

BumpResult(pkg, newVersion) ==
  [package |-> pkg.name,
   oldVersion |-> pkg.version,
   newVersion |-> newVersion,
   reason |-> IF pkg.name \in DOMAIN reasons THEN reasons[pkg.name] ELSE reasonChanged]

\* how a command or a file operation may end: TRUE it succeeds, FALSE it fails
Outcomes == IF faults > 0 THEN BOOLEAN ELSE {TRUE}

Event(op, package, text) == [op |-> op, package |-> package, version |-> text]

WriteEvent(package, text) == Event("write", package, text)

bumpVersionOf(text, type) ==
  IF variant = "part_005" THEN bumpVersionSplit(text, type) ELSE bumpVersion(text, type)

\* one iteration of `for (const pkg of packages)` of src/src/Bump.ts
BumpNextPackage ==
  /\ step = "bump"
  /\ variant = "Bump.ts"
  /\ failure = None
  /\ bpIndex <= Len(packages)
  /\ \E pkg \in {packages[bpIndex]} :
     \E bumped \in {bumpVersionOf(pkg.version, options.type)} :
     \E result \in {BumpResult(pkg, bumped.value)} :
         IF ~has(toBump, pkg.name)
         THEN /\ bpIndex' = bpIndex + 1
              /\ UNCHANGED <<manifests, results, failure, log, dirty, faults>>
         ELSE IF bumped.threw
         THEN /\ failure' = InvalidVersion
              /\ UNCHANGED <<manifests, results, bpIndex, log, dirty, faults>>
         ELSE IF options.dryRun
         THEN /\ results' = Append(results, result)
              /\ bpIndex' = bpIndex + 1
              /\ UNCHANGED <<manifests, failure, log, dirty, faults>>
         ELSE \E written \in Outcomes :
                IF written
                THEN /\ manifests' = [manifests EXCEPT ![pkg.name] =
                                        updatePackageVersion(@, bumped.value)]
                     /\ log' = Append(log, WriteEvent(pkg.name, bumped.value))
                     /\ dirty' = dirty \cup {pkg.name}
                     /\ results' = Append(results, result)
                     /\ bpIndex' = bpIndex + 1
                     /\ UNCHANGED <<failure, faults>>
                ELSE /\ failure' = ManifestFailure
                     /\ faults' = faults - 1
                     /\ UNCHANGED <<manifests, results, bpIndex, log, dirty>>
  /\ UNCHANGED <<cascadeVars, bumpVars, cycleVars, manifestsBefore, options, pending, inFlight,
                 step, vcsVars>>

\* mutant: no update is started for the first package
startedUpdatesButFirst(packagesToBump) ==
  {packagesToBump[i].name : i \in DOMAIN packagesToBump \ {1}}

\* `Promise.all(packagesToBump.map((pkg, i) => updatePackageVersion(...)))`:
\* the updates that are started, one per package
startedUpdates(packagesToBump) ==
  {packagesToBump[i].name : i \in DOMAIN packagesToBump}

\* `packages.filter(...)` and `packagesToBump.map(...)` of part_005, and the
\* start of every update when the run is not a dry run
ComputeResults ==
  /\ step = "bump"
  /\ variant = "part_005"
  /\ failure = None
  /\ bpIndex = 1
  /\ \E packagesToBump \in {SelectSeq(packages, LAMBDA pkg : has(toBump, pkg.name))} :
     \E bumped \in {[i \in DOMAIN packagesToBump |->
                       bumpVersionOf(packagesToBump[i].version, options.type)]} :
         IF \E i \in DOMAIN bumped : bumped[i].threw
         THEN /\ failure' = InvalidVersion
              /\ UNCHANGED <<results, pending, inFlight, bpIndex>>
         ELSE /\ results' = [i \in DOMAIN packagesToBump |->
                               BumpResult(packagesToBump[i], bumped[i].value)]
              /\ pending' = IF options.dryRun THEN {} ELSE startedUpdates(packagesToBump)
              /\ bpIndex' = Len(packages) + 1
              /\ UNCHANGED <<failure, inFlight>>
  /\ UNCHANGED <<cascadeVars, bumpVars, cycleVars, manifests, manifestsBefore, options,
                 runVars>>

\* updatePackageVersion of part_005, first await: one of the started updates
\* reads its manifest
UpdateReads ==
  /\ step = "bump"
  /\ variant = "part_005"
  /\ \E name \in pending \ DOMAIN inFlight :
       \E read \in Outcomes :
         IF read
         THEN /\ inFlight' = mapSet(inFlight, name, manifests[name])
              /\ UNCHANGED <<pending, failure, faults>>
         ELSE /\ pending' = pending \ {name}
              /\ failure' = ManifestFailure
              /\ faults' = faults - 1
              /\ UNCHANGED inFlight
  /\ UNCHANGED <<cascadeVars, bumpVars, cycleVars, manifests, manifestsBefore, options,
                 results, bpIndex, step, log, dirty, vcsVars>>

\* updatePackageVersion of part_005, second await: an update that has read its
\* manifest writes it, and with that it settles
UpdateSettles ==
  /\ step = "bump"
  /\ variant = "part_005"
  /\ \E name \in DOMAIN inFlight :
       \E result \in {results[CHOOSE i \in DOMAIN results : results[i].package = name]} :
           /\ pending' = pending \ {name}
           /\ inFlight' = [n \in DOMAIN inFlight \ {name} |-> inFlight[n]]
           /\ \E written \in Outcomes :
                IF written
                THEN /\ manifests' = [manifests EXCEPT ![name] =
                                        updatePackageVersion(inFlight[name], result.newVersion)]
                     /\ log' = Append(log, WriteEvent(name, result.newVersion))
                     /\ dirty' = dirty \cup {name}
                     /\ UNCHANGED <<failure, faults>>
                ELSE /\ failure' = ManifestFailure
                     /\ faults' = faults - 1
                     /\ UNCHANGED <<manifests, log, dirty>>
  /\ UNCHANGED <<cascadeVars, bumpVars, cycleVars, manifestsBefore, options, results,
                 bpIndex, step, vcsVars>>

\* `return results`
BumpPackagesReturn ==
  /\ step = "bump"
  /\ failure = None
  /\ bpIndex > Len(packages)
  /\ pending = {}
  /\ inFlight = EmptyMap
  /\ step' = "returned"
  /\ UNCHANGED <<cascadeVars, bumpVars, cycleVars, planVars, log, dirty, faults,
                 vcsVars>>

NextPlanner ==
  \/ BumpNextPackage
  \/ ComputeResults
  \/ UpdateReads
  \/ UpdateSettles
  \/ BumpPackagesReturn

\* the manifests bumpPackages is called on
Word(w) == <<w>>

PlannerVersions ==
  {<<"1", ".", "0", ".", "0">>,
   <<"0", ".", "7", ".", "0", "-", "a", "1">>,
   <<"1", ".", "2">>}

\* the members of a manifest other than its version, as they follow each other
ManifestLayouts ==
  {<<NameKey, VersionKey, PrivateKey>>,
   <<VersionKey, NameKey>>,
   <<NameKey, <<"1", "0">>, VersionKey, <<"2">>>>,
   <<NameKey>>}

memberValue(key, name, text) ==
  IF key = NameKey THEN Word(name)
  ELSE IF key = VersionKey THEN text
  ELSE IF key = PrivateKey THEN Word("false")
  ELSE Word("x") \o key

manifestOf(layout, name, text) ==
  [i \in DOMAIN layout |-> Member(layout[i], memberValue(layout[i], name, text))]

PlannerTypes == {"patch", "minor", "alpha"}

InitPlanner ==
  /\ variant \in {"Bump.ts", "part_005"}
  /\ \E layout \in ManifestLayouts, texts \in [Names -> PlannerVersions] :
       manifests = [name \in Names |-> manifestOf(layout, name, texts[name])]
  /\ manifestsBefore = manifests
  /\ packages = snapshotOf(PackageNames, manifests)
  /\ \E S \in SUBSET Names :
       /\ toBump = SelectSeq(PackageNames, LAMBDA name : name \in S)
       /\ \E R \in SUBSET S : reasons = [name \in R |-> reasonSpecified]
  /\ \E type \in PlannerTypes, dry \in BOOLEAN :
       options = [NoOptions EXCEPT !.type = type, !.dryRun = dry]
  /\ results = <<>>
  /\ bpIndex = 1
  /\ pending = {}
  /\ inFlight = EmptyMap
  /\ failure = None
  /\ step = "bump"
  /\ log = <<>>
  /\ tags = {}
  /\ head = 0
  /\ lastTouched = EmptyMap
  /\ dirty = {}
  /\ runs = 0
  /\ faults = MaxFaults
  /\ markers = EmptyMap
  /\ diffFailed = {}
  /\ lookupFailed = {}
  /\ lastRun = NoRun
  /\ workspaceDeps = EmptyMap
  /\ changedPackages = {}
  /\ specifiedPackages = <<>>
  /\ mode = "none"
  /\ pc = "idle"
  /\ graph = <<>>
  /\ dependencyReasons = EmptyMap
  /\ hasChanges = FALSE
  /\ passes = 0
  /\ version = <<>>
  /\ oldVersion = <<>>
  /\ bumpType = None
  /\ bumpThrew = FALSE
  /\ bumps = 0
  /\ CycleIdle

SpecPlanner == InitPlanner /\ [][NextPlanner]_vars

\* ------------------------------------------------------------------------
\* Cascade.ts: the two cascades from their arguments to their result
\* ------------------------------------------------------------------------

\* `while (hasChanges)` of findDependents
RECURSIVE findDependents(_, _)
findDependents(g, st) ==
  IF ~st.hasChanges THEN st
  ELSE findDependents(g, findDependentsPass(g, 1, [st EXCEPT !.hasChanges = FALSE]))

getPackagesToBump(pkgs, changed) ==
  LET publicPackages == getPublicPackages(pkgs).packages
      changedPublic == changedPublicOf(pkgs, changed)
      seed == SelectSeq([i \in DOMAIN pkgs |-> pkgs[i].name],
                        LAMBDA name : name \in changedPublic)
      st == findDependents(buildDependencyGraph(publicPackages),
              [allAffected |-> seed, dependencyReasons |-> EmptyMap, hasChanges |-> TRUE])
  IN  [toBump |-> st.allAffected,
       reasons |-> buildReasonStrings(st.allAffected, changedPublic, st.dependencyReasons)]

\* `while (hasChanges)` of getPackagesWithChangedDeps
RECURSIVE changedDepsLoop(_, _, _)
changedDepsLoop(g, changed, st) ==
  IF ~st.hasChanges THEN st
  ELSE changedDepsLoop(g, changed,
         changedDepsPass(g, st.toBump, 1, changed, [st EXCEPT !.hasChanges = FALSE]))

getPackagesWithChangedDeps(pkgs, specified, changed) ==
  LET publicPackages == getPublicPackages(pkgs).packages
      specifiedPublic == specifiedPublicOf(pkgs, specified)
      st == changedDepsLoop(buildDependencyGraph(publicPackages), changed,
              [toBump |-> specifiedPublic,
               reasons |-> [pkgName \in Range(specifiedPublic) |-> reasonSpecified],
               hasChanges |-> TRUE])
  IN  [toBump |-> st.toBump, reasons |-> st.reasons]

\* ------------------------------------------------------------------------
\* The repository: tags, commits and the queries of Detect.ts
\* ------------------------------------------------------------------------

\* null: no tag
NoTag == [package |-> None, version |-> <<>>, commit |-> 0]

Tag(package, text, commit) == [package |-> package, version |-> text, commit |-> commit]

\* the first commit of the branch: `git rev-list --max-parents=0 HEAD`
RootCommit == 1

\* the characters of a version other than digits, in the order of their codes
CharOrder == <<"-", ".", "a", "b", "c", "r">>

charRank(c) == CHOOSE i \in DOMAIN CharOrder : CharOrder[i] = c

\* `--sort=version:refname` on two tags of one package (git's versioncmp
\* without a versionsort.suffix setting): at the first difference a longer
\* run of digits is the greater number, other characters compare by code, and
\* a text that is the start of the other one is the lesser
versionLess(l, r) ==
  LET i == CHOOSE k \in 1..(Len(l) + 1) :
             /\ \A j \in 1..(k - 1) : j <= Len(r) /\ l[j] = r[j]
             /\ k > Len(l) \/ k > Len(r) \/ l[k] # r[k]
  IN  IF l = r THEN FALSE
      ELSE IF i > Len(l) THEN TRUE
      ELSE IF i > Len(r) THEN FALSE
      ELSE IF isDigit(l[i]) /\ isDigit(r[i])
      THEN IF digitsEnd(l, i) # digitsEnd(r, i) THEN digitsEnd(l, i) < digitsEnd(r, i)
           ELSE digitValue(l[i]) < digitValue(r[i])
      ELSE IF isDigit(l[i]) THEN FALSE
      ELSE IF isDigit(r[i]) THEN TRUE
      ELSE charRank(l[i]) < charRank(r[i])

\* `git tag --list "${packageName}@*" --sort=-version:refname`, first line
findLastPackageTag(packageName, tagSet) ==
  LET matching == {t \in tagSet : t.package = packageName}
  IN  IF matching = {} THEN NoTag
      ELSE CHOOSE t \in matching :
             \A other \in matching : other = t \/ versionLess(other.version, t.version)

\* mutant: a failing tag query still yields the newest tag
lastTagFound(packageName, tagSet, queryFails) == findLastPackageTag(packageName, tagSet)

\* findLastPackageTag with its try and catch: a failing query yields null
lastTagOrNull(packageName, tagSet, queryFails) ==
  IF queryFails THEN NoTag ELSE findLastPackageTag(packageName, tagSet)

\* gitRange(since): the commit the diff starts from
rangeStart(since) == IF since = NoTag THEN RootCommit ELSE since.commit

\* `git diff --name-only ${gitRange(lastTag)} -- path` prints a file
packageHasChanges(packageName, lastTag) == lastTouched[packageName] > rangeStart(lastTag)

\* mutant: a package whose diff fails counts as changed
hasChangesOrTrue(packageName, lastTag, diffFails) ==
  IF diffFails THEN TRUE ELSE packageHasChanges(packageName, lastTag)

\* packageHasChanges with its try and catch: a failing realpath or diff yields false
hasChangesOrFalse(packageName, lastTag, diffFails) ==
  IF diffFails THEN FALSE ELSE packageHasChanges(packageName, lastTag)

\* ------------------------------------------------------------------------
\* runBump of src/unnamed/part_002
\* ------------------------------------------------------------------------

UnknownPackage == "Unknown package(s)"

VcsFailure == "VCS command failed"

\* the packages of the workspace of a run, in discovery order
WorkspaceNames == <<"a", "b">>

workspace == Range(WorkspaceNames)

RECURSIVE Flatten(_)
Flatten(seqs) == IF seqs = <<>> THEN <<>> ELSE Head(seqs) \o Flatten(Tail(seqs))

\* findWorkspacePackages
Discover ==
  /\ step = "start"
  /\ packages' = snapshotOf(WorkspaceNames, manifests)
  /\ manifestsBefore' = manifests
  /\ step' = "detect"
  /\ UNCHANGED <<workspaceDeps, changedPackages, specifiedPackages, mode, pc, graph, toBump,
                 dependencyReasons, reasons, hasChanges, passes, bumpVars, cycleVars,
                 manifests, options, results, bpIndex, pending, inFlight, failure,
                 log, dirty, faults, vcsVars>>

\* detectChangedPackages: per package the tag lookup and the diff, both with
\* their failure swallowed, then the commit history, which may throw
DetectChangedPackages ==
  /\ step = "detect"
  /\ failure = None
  /\ \E lookupFails \in SUBSET workspace, diffFails \in SUBSET workspace,
        historyFails \in BOOLEAN :
       LET failed == Cardinality(lookupFails) + Cardinality(diffFails)
                       + (IF historyFails THEN 1 ELSE 0)
           found == [name \in workspace |->
                       lastTagOrNull(name, tags, name \in lookupFails)]
       IN  /\ failed <= faults
           /\ faults' = faults - failed
           /\ markers' = found
           /\ diffFailed' = diffFails
           /\ lookupFailed' = lookupFails
           /\ changedPackages' =
                {name \in workspace :
                   hasChangesOrFalse(name, found[name], name \in diffFails)}
           /\ IF historyFails
              THEN failure' = VcsFailure /\ step' = step
              ELSE failure' = failure /\ step' = "cascade"
  /\ log' = log \o Flatten([i \in DOMAIN packages |->
                              <<Event("tag --list", packages[i].name, <<>>),
                                Event("diff", packages[i].name, <<>>)>>])
                \o <<Event("log", None, <<>>)>>
  /\ UNCHANGED <<packages, workspaceDeps, specifiedPackages, mode, pc, graph, toBump,
                 dependencyReasons, reasons, hasChanges, passes, bumpVars, cycleVars,
                 manifests, manifestsBefore, options, results, bpIndex, pending, inFlight,
                 dirty, tags, head, lastTouched, runs, lastRun>>

\* mutant: every requested name is taken as a workspace package
invalidPackagesNone(pkgs, requestedPackages) == <<>>

\* `requestedPackages.filter(p => !packageNames.has(p))`
invalidPackages(pkgs, requestedPackages) ==
  SelectSeq(requestedPackages,
    LAMBDA p : p \notin {pkgs[i].name : i \in DOMAIN pkgs})

\* `new Set(requestedPackages)`
RECURSIVE newSet(_)
newSet(list) ==
  IF list = <<>> THEN <<>>
  ELSE add(newSet(SubSeq(list, 1, Len(list) - 1)), list[Len(list)])

\* computeExplicitModeCascade or computeAutoDetectCascade, and the two early
\* returns of runBump that follow
ComputeCascade ==
  /\ step = "cascade"
  /\ failure = None
  /\ IF Len(options.packages) > 0
     THEN IF Len(invalidPackages(packages, options.packages)) > 0
          THEN /\ failure' = UnknownPackage
               /\ UNCHANGED <<specifiedPackages, mode, toBump, reasons, step>>
          ELSE \E cascade \in {getPackagesWithChangedDeps(packages,
                                   newSet(options.packages), changedPackages)} :
                   /\ specifiedPackages' = newSet(options.packages)
                   /\ mode' = "downward"
                   /\ toBump' = cascade.toBump
                   /\ reasons' = cascade.reasons
                   /\ step' = IF Len(cascade.toBump) = 0 THEN "end" ELSE "bump"
                   /\ UNCHANGED failure
     ELSE IF changedPackages = {}
          THEN /\ step' = "end"
               /\ UNCHANGED <<specifiedPackages, mode, toBump, reasons, failure>>
          ELSE \E cascade \in {getPackagesToBump(packages, changedPackages)} :
                   /\ mode' = "upward"
                   /\ toBump' = cascade.toBump
                   /\ reasons' = cascade.reasons
                   /\ step' = IF Len(cascade.toBump) = 0 THEN "end" ELSE "bump"
                   /\ UNCHANGED <<specifiedPackages, failure>>
  /\ UNCHANGED <<packages, workspaceDeps, changedPackages, pc, graph, dependencyReasons,
                 hasChanges, passes, bumpVars, cycleVars,
                 manifests, manifestsBefore, options, results, bpIndex, pending, inFlight,
                 log, dirty, faults, vcsVars>>

\* mutant: the VCS operations of a run do not look at dryRun
gitOpsWanted(opts, res) == opts.commit /\ Len(res) > 0

\* `if (!options.dryRun && options.commit && results.length > 0)`
performsGitOps(opts, res) == ~opts.dryRun /\ opts.commit /\ Len(res) > 0

\* displayResults, and the test that guards performGitOps
DisplayResults ==
  /\ step = "returned"
  /\ failure = None
  /\ runs > 0
  /\ IF options.changelog
     THEN /\ log' = log \o <<Event("log", None, <<>>)>>
          /\ \E printed \in Outcomes :
               IF printed
               THEN /\ step' = IF performsGitOps(options, results) THEN "commit" ELSE "end"
                    /\ UNCHANGED <<failure, faults>>
               ELSE /\ failure' = VcsFailure
                    /\ faults' = faults - 1
                    /\ UNCHANGED step
     ELSE /\ step' = IF performsGitOps(options, results) THEN "commit" ELSE "end"
          /\ UNCHANGED <<failure, faults, log>>
  /\ UNCHANGED <<cascadeVars, bumpVars, cycleVars, manifests, manifestsBefore, options,
                 results, bpIndex, pending, inFlight, dirty, vcsVars>>

\* mutant: the push comes before the tags
pushFirst(opts) == IF opts.push THEN "push" ELSE IF opts.tag THEN "tag" ELSE "end"

\* performGitOps after the commit: `if (options.tag)`, then `if (options.push)`
afterCommit(opts) == IF opts.tag THEN "tag" ELSE IF opts.push THEN "push" ELSE "end"

\* createCommit: `git add .` and `git commit`
CreateCommit ==
  /\ step = "commit"
  /\ failure = None
  /\ \E committed \in Outcomes :
       IF committed
       THEN /\ head' = head + 1
            /\ lastTouched' = [name \in DOMAIN lastTouched |->
                                 IF name \in dirty THEN head + 1 ELSE lastTouched[name]]
            /\ dirty' = {}
            /\ log' = Append(log, Event("commit", None, <<>>))
            /\ step' = afterCommit(options)
            /\ UNCHANGED <<failure, faults>>
       ELSE /\ failure' = VcsFailure
            /\ faults' = faults - 1
            /\ UNCHANGED <<head, lastTouched, dirty, log, step>>
  /\ UNCHANGED <<cascadeVars, bumpVars, cycleVars, manifests, manifestsBefore, options,
                 results, bpIndex, pending, inFlight, tags, runs, markers, diffFailed, lookupFailed,
                 lastRun>>

\* the tag events of the log of this run
tagEvents == SelectSeq(log, LAMBDA e : e.op = "tag")

\* one iteration of `for (const result of results)`: createTag
CreateTag ==
  /\ step = "tag"
  /\ failure = None
  /\ LET result == results[Len(tagEvents) + 1]
         exists == \E t \in tags :
                     t.package = result.package /\ t.version = result.newVersion
     IN  \E created \in Outcomes :
           IF created /\ ~exists
           THEN /\ tags' = tags \cup {Tag(result.package, result.newVersion, head)}
                /\ log' = Append(log, Event("tag", result.package, result.newVersion))
                /\ step' = IF Len(tagEvents) + 1 < Len(results) THEN "tag"
                           ELSE IF options.push THEN "push" ELSE "end"
                /\ UNCHANGED <<failure, faults>>
           ELSE /\ failure' = VcsFailure
                /\ faults' = IF created THEN faults ELSE faults - 1
                /\ UNCHANGED <<tags, log, step>>
  /\ UNCHANGED <<cascadeVars, bumpVars, cycleVars, manifests, manifestsBefore, options,
                 results, bpIndex, pending, inFlight, dirty, head, lastTouched, runs, markers,
                 diffFailed, lookupFailed, lastRun>>

\* push(options.tag)
Push ==
  /\ step = "push"
  /\ failure = None
  /\ \E pushed \in Outcomes :
       IF pushed
       THEN /\ log' = Append(log, Event("push", None, <<>>))
            /\ step' = "end"
            /\ UNCHANGED <<failure, faults>>
       ELSE /\ failure' = VcsFailure
            /\ faults' = faults - 1
            /\ UNCHANGED <<log, step>>
  /\ UNCHANGED <<cascadeVars, bumpVars, cycleVars, manifests, manifestsBefore, options,
                 results, bpIndex, pending, inFlight, dirty, vcsVars>>

NextRun ==
  \/ Discover
  \/ DetectChangedPackages
  \/ ComputeCascade
  \/ BumpNextPackage
  \/ ComputeResults
  \/ UpdateReads
  \/ UpdateSettles
  \/ BumpPackagesReturn
  \/ DisplayResults
  \/ CreateCommit
  \/ CreateTag
  \/ Push

\* the manifest of a package of the workspace of a run
runManifest(name, text, private) ==
  <<Member(NameKey, Word(name)), Member(VersionKey, text)>>
    \o (IF private THEN <<Member(PrivateKey, Word("true"))>> ELSE <<>>)

\* the workspace dependencies of the workspaces of a run
RunDeps ==
  {[name \in Names |-> <<>>],
   [name \in Names |-> IF name = "a" THEN <<"b">> ELSE <<>>],
   [name \in Names |-> IF name = "b" THEN <<"a">> ELSE <<>>]}

\* the requested packages of a run; "c" is not a package of the workspace
RunRequests == {<<>>, <<"a">>, <<"b">>, <<"c">>, <<"a", "c">>, <<"a", "b">>}

RunOptions ==
  [type : {"patch"}, dryRun : BOOLEAN, changelog : BOOLEAN, commit : BOOLEAN,
   tag : BOOLEAN, push : BOOLEAN, packages : RunRequests]

RunVersions == {<<"1", ".", "0", ".", "0">>, <<"1", ".", "2">>}

\* what a run leaves alone and what it starts from
RunStart ==
  /\ packages = <<>>
  /\ changedPackages = {}
  /\ specifiedPackages = <<>>
  /\ mode = "none"
  /\ pc = "idle"
  /\ graph = <<>>
  /\ toBump = <<>>
  /\ dependencyReasons = EmptyMap
  /\ reasons = EmptyMap
  /\ hasChanges = FALSE
  /\ passes = 0
  /\ version = <<>>
  /\ oldVersion = <<>>
  /\ bumpType = None
  /\ bumpThrew = FALSE
  /\ bumps = 0
  /\ CycleIdle
  /\ manifestsBefore = manifests
  /\ results = <<>>
  /\ bpIndex = 1
  /\ pending = {}
  /\ inFlight = EmptyMap
  /\ failure = None
  /\ step = "start"
  /\ log = <<>>
  /\ dirty = {}
  /\ runs = 1
  /\ markers = [name \in workspace |-> NoTag]
  /\ diffFailed = {}
  /\ lookupFailed = {}
  /\ lastRun = NoRun

\* one run, with every combination of the options, in a repository of two
\* commits without tags
InitRun ==
  /\ variant \in {"Bump.ts", "part_005"}
  /\ \E text \in RunVersions, private \in BOOLEAN :
       manifests = [name \in workspace |->
                      IF name = "b" THEN runManifest(name, text, private)
                      ELSE runManifest(name, <<"1", ".", "0", ".", "0">>, FALSE)]
  /\ workspaceDeps \in RunDeps
  /\ options \in RunOptions
  /\ tags = {}
  /\ head = 2
  /\ lastTouched \in [workspace -> 1..2]
  /\ faults = MaxFaults
  /\ RunStart

SpecRun == InitRun /\ [][NextRun]_vars

\* ------------------------------------------------------------------------
\* Releases that follow each other
\* ------------------------------------------------------------------------

\* the tags the run has created
tagsCreated == {Tag(e.package, e.version, head) : e \in Range(tagEvents)}

ReleaseOptions ==
  [type : {"patch", "alpha"}, dryRun : {FALSE}, changelog : {FALSE}, commit : {TRUE},
   tag : {TRUE}, push : {TRUE}, packages : {<<>>, <<"a">>, <<"b">>}]

ReleaseVersions ==
  {<<"1", ".", "0", ".", "0">>, <<"0", ".", "7", ".", "0", "-", "a", "1">>}

\* the run has ended; developers commit changes to some packages and the tool
\* is run again
StartNextRun ==
  /\ step = "end"
  /\ runs >= 1
  /\ runs < MaxRuns
  /\ lastRun' = [changed |-> changedPackages,
                 toBump |-> Range(toBump),
                 tagged |-> tagsCreated,
                 markers |-> markers,
                 released |-> failure = None /\ \E e \in Range(log) : e.op = "commit"]
  /\ \E edited \in SUBSET workspace :
       IF edited = {} THEN UNCHANGED <<head, lastTouched>>
       ELSE /\ head' = head + 1
            /\ lastTouched' = [name \in DOMAIN lastTouched |->
                                 IF name \in edited THEN head + 1 ELSE lastTouched[name]]
  /\ options' \in ReleaseOptions
  /\ runs' = runs + 1
  /\ packages' = <<>>
  /\ changedPackages' = {}
  /\ specifiedPackages' = <<>>
  /\ mode' = "none"
  /\ toBump' = <<>>
  /\ reasons' = EmptyMap
  /\ manifestsBefore' = manifests
  /\ results' = <<>>
  /\ bpIndex' = 1
  /\ pending' = {}
  /\ inFlight' = EmptyMap
  /\ failure' = None
  /\ step' = "start"
  /\ log' = <<>>
  /\ markers' = [name \in workspace |-> NoTag]
  /\ diffFailed' = {}
  /\ lookupFailed' = {}
  /\ UNCHANGED <<workspaceDeps, pc, graph, dependencyReasons, hasChanges, passes,
                 bumpVars, cycleVars, manifests, dirty, faults, tags>>

NextRelease == NextRun \/ StartNextRun

\* a repository of two commits in which a package may carry the tag of its
\* version, created on the first commit, and no command fails
InitRelease ==
  /\ variant \in {"Bump.ts", "part_005"}
  /\ \E texts \in [workspace -> ReleaseVersions], released \in SUBSET workspace :
       /\ manifests = [name \in workspace |-> runManifest(name, texts[name], FALSE)]
       /\ tags = {Tag(name, texts[name], RootCommit) : name \in released}
  /\ workspaceDeps \in RunDeps
  /\ options \in ReleaseOptions
  /\ head = 2
  /\ lastTouched \in [workspace -> 1..2]
  /\ faults = 0
  /\ RunStart

SpecRelease == InitRelease /\ [][NextRelease]_vars

\* ------------------------------------------------------------------------
\* Detection in a repository with tags, where commands may fail
\* ------------------------------------------------------------------------

\* per package no tag, or the tag of its version on the first or on the second
\* of the two commits
TagPlacements == [workspace -> 0..2]

InitDetect ==
  /\ variant \in {"Bump.ts", "part_005"}
  /\ \E texts \in [workspace -> ReleaseVersions], placed \in TagPlacements :
       /\ manifests = [name \in workspace |-> runManifest(name, texts[name], FALSE)]
       /\ tags = {Tag(name, texts[name], placed[name]) : name \in {n \in workspace : placed[n] > 0}}
  /\ workspaceDeps \in RunDeps
  /\ options \in ReleaseOptions
  /\ head = 2
  /\ lastTouched \in [workspace -> 1..2]
  /\ faults = MaxFaults
  /\ RunStart

SpecDetect == InitDetect /\ [][NextRun]_vars

\* ------------------------------------------------------------------------
\* Reading the workspace dependencies of a manifest (Cascade.ts)
\* ------------------------------------------------------------------------

dependencySections == <<"dependencies", "devDependencies", "peerDependencies">>

\* the text "workspace:"
WorkspacePrefix == <<"w", "o", "r", "k", "s", "p", "a", "c", "e", ":">>

\* version.startsWith(prefix)
startsWith(text, prefix) ==
  Len(text) >= Len(prefix) /\ SubSeq(text, 1, Len(prefix)) = prefix

\* a JSON value of a dependency section: a string or a number
JsonString(text) == [type |-> "string", text |-> text]

JsonNumber(text) == [type |-> "number", text |-> text]

\* one entry of Object.entries(deps)
Dep(name, specifier) == [name |-> name, version |-> specifier]

\* packageJson[section]: undefined, or an object with its entries in order
NoSection == [present |-> FALSE, entries |-> <<>>]

Section(entries) == [present |-> TRUE, entries |-> entries]

\* mutant: every declared dependency counts, whatever its specifier is
sectionDepsAll(deps) ==
  IF ~deps.present THEN <<>>
  ELSE [i \in DOMAIN deps.entries |-> deps.entries[i].name]

\* the body of the flatMap of getWorkspaceDeps for one section
sectionDeps(deps) ==
  IF ~deps.present THEN <<>>
  ELSE LET linked == SelectSeq(deps.entries,
                       LAMBDA e : /\ e.version.type = "string"
                                  /\ startsWith(e.version.text, WorkspacePrefix))
       IN  [i \in DOMAIN linked |-> linked[i].name]

\* getWorkspaceDeps on the parsed manifest: `new Set(workspaceDeps)`
workspaceDepsOf(packageJson) ==
  newSet(Flatten([i \in DOMAIN dependencySections |->
                    sectionDeps(packageJson[dependencySections[i]])]))

\* buildDependencyGraph(publicPackages), as both cascades call it: the
\* manifest of each package is read and its entry is set
BuildDependencyGraph ==
  /\ pc = "build"
  /\ workspaceDeps' = [name \in Names |->
                         IF name \in getPublicPackages(packages).names
                         THEN workspaceDepsOf(manifests[name]) ELSE <<>>]
  /\ graph' = [i \in DOMAIN getPublicPackages(packages).packages |->
                 [name |-> getPublicPackages(packages).packages[i].name,
                  dependencies |->
                    workspaceDeps'[getPublicPackages(packages).packages[i].name]]]
  /\ pc' = "built"
  /\ UNCHANGED <<packages, changedPackages, specifiedPackages, mode, toBump,
                 dependencyReasons, reasons, hasChanges, passes, bumpVars, extVars>>

NextGraph == BuildDependencyGraph

Chars(w) ==
  CASE w = "workspace:*" -> WorkspacePrefix \o <<"*">>
    [] w = "workspace:^" -> WorkspacePrefix \o <<"^">>
    [] w = "workspace:" -> WorkspacePrefix
    [] w = "workspace" -> SubSeq(WorkspacePrefix, 1, 9)
    [] w = "^1.0.0" -> <<"^", "1", ".", "0", ".", "0">>
    [] w = "npm:workspace:*" -> <<"n", "p", "m", ":">> \o WorkspacePrefix \o <<"*">>

\* the dependency sections of the manifests of the workspace; "x" is not a
\* package of the workspace
DependencyLayouts ==
  {[dependencies |-> NoSection, devDependencies |-> NoSection, peerDependencies |-> NoSection],
   [dependencies |-> Section(<<Dep("b", JsonString(Chars("workspace:*")))>>),
    devDependencies |-> NoSection, peerDependencies |-> NoSection],
   [dependencies |-> Section(<<>>),
    devDependencies |-> Section(<<Dep("b", JsonString(Chars("^1.0.0")))>>),
    peerDependencies |-> NoSection],
   [dependencies |-> Section(<<Dep("b", JsonString(Chars("^1.0.0")))>>),
    devDependencies |-> NoSection,
    peerDependencies |-> Section(<<Dep("b", JsonString(Chars("workspace:^")))>>)],
   [dependencies |-> Section(<<Dep("x", JsonString(Chars("workspace:*"))),
                               Dep("c", JsonString(Chars("workspace:*")))>>),
    devDependencies |-> NoSection, peerDependencies |-> NoSection],
   [dependencies |-> Section(<<Dep("b", JsonNumber(<<"1">>)),
                               Dep("x", JsonString(Chars("npm:workspace:*")))>>),
    devDependencies |-> Section(<<Dep("c", JsonString(Chars("workspace")))>>),
    peerDependencies |-> NoSection],
   [dependencies |-> Section(<<Dep("c", JsonString(Chars("workspace:*")))>>),
    devDependencies |-> Section(<<Dep("c", JsonString(Chars("workspace:*"))),
                                  Dep("a", JsonString(Chars("workspace:")))>>),
    peerDependencies |-> Section(<<Dep("c", JsonString(Chars("^1.0.0")))>>)]}

InitGraph ==
  /\ packages \in Workspaces
  /\ manifests \in [Names -> DependencyLayouts]
  /\ workspaceDeps = EmptyMap
  /\ changedPackages = {}
  /\ specifiedPackages = <<>>
  /\ mode = "none"
  /\ pc = "build"
  /\ graph = <<>>
  /\ toBump = <<>>
  /\ dependencyReasons = EmptyMap
  /\ reasons = EmptyMap
  /\ hasChanges = FALSE
  /\ passes = 0
  /\ BumpIdle
  /\ CycleIdle
  /\ manifestsBefore = EmptyMap
  /\ options = NoOptions
  /\ results = <<>>
  /\ bpIndex = 0
  /\ pending = {}
  /\ inFlight = EmptyMap
  /\ failure = None
  /\ RunIdle

SpecGraph == InitGraph /\ [][NextGraph]_vars

\* ------------------------------------------------------------------------
\* Claims about bumpPackages
\* ------------------------------------------------------------------------

Returned_bumpPackages == step = "returned"

\* the workspace packages named in toBump, in discovery order
packagesInToBump == SelectSeq(packages, LAMBDA pkg : pkg.name \in Range(toBump))

keysOf(members) == [i \in DOMAIN members |-> members[i].key]

otherMembers(members) == SelectSeq(members, LAMBDA m : m.key # VersionKey)

resultOf(name) == results[CHOOSE i \in DOMAIN results : results[i].package = name]

\* C16: after a successful run that is not a dry run, the manifest of every
\* package of toBump has version = newVersion, its other members keep their
\* values and the order of the keys is the one of the file before; every other
\* manifest is unchanged.
C16_OnlyVersionChanges ==
  (Returned_bumpPackages /\ ~options.dryRun) =>
    \A name \in Names :
      IF name \in Range(toBump)
      THEN /\ lastValue(manifests[name], VersionKey) = resultOf(name).newVersion
           /\ otherMembers(manifests[name]) = otherMembers(manifestsBefore[name])
           /\ hasKey(manifestsBefore[name], VersionKey) =>
                keysOf(manifests[name]) = keysOf(manifestsBefore[name])
      ELSE manifests[name] = manifestsBefore[name]

\* the manifest of the package has been rewritten with its bumped version
Rewritten(pkg) ==
  /\ hasKey(manifests[pkg.name], VersionKey)
  /\ lastValue(manifests[pkg.name], VersionKey) =
       bumpVersion(pkg.version, options.type).value
  /\ manifests[pkg.name] # manifestsBefore[pkg.name]

\* the first package of toBump, in discovery order, whose version is invalid
firstInvalid ==
  CHOOSE i \in DOMAIN packages :
    /\ has(toBump, packages[i].name) /\ parseVersion(packages[i].version).threw
    /\ \A j \in 1..(i - 1) :
         ~(has(toBump, packages[j].name) /\ parseVersion(packages[j].version).threw)

FailedInvalid == step = "bump" /\ failure = InvalidVersion /\ ~options.dryRun

\* C19 as stated: when a run that is not a dry run fails with Invalid version,
\* the manifests of the toBump packages before the failing one are rewritten.
C19_PrecedingPersisted ==
  FailedInvalid =>
    \A j \in 1..(firstInvalid - 1) :
      has(toBump, packages[j].name) => Rewritten(packages[j])

\* C19: with bumpPackages of src/src/Bump.ts, when a run that is not a dry run
\* fails with Invalid version, the manifests of the toBump packages before the
\* failing one are rewritten and stay so, the others are as before; with
\* bumpPackages of part_005 no manifest is rewritten.
C19_PrecedingPersistedSequential ==
  FailedInvalid =>
    IF variant = "Bump.ts"
    THEN \A j \in DOMAIN packages :
           IF j < firstInvalid /\ has(toBump, packages[j].name)
           THEN Rewritten(packages[j])
           ELSE manifests[packages[j].name] = manifestsBefore[packages[j].name]
    ELSE manifests = manifestsBefore

\* a nonempty strict subset of toBump is persisted
C19_Witness ==
  /\ FailedInvalid
  /\ variant = "Bump.ts"
  /\ Len(toBump) = 3
  /\ firstInvalid = 3
  /\ Rewritten(packages[1]) /\ Rewritten(packages[2])
  /\ manifests[packages[3].name] = manifestsBefore[packages[3].name]

\* ------------------------------------------------------------------------
\* Claims about a run
\* ------------------------------------------------------------------------

InRun == runs > 0

SideEffectOps == {"write", "commit", "tag", "push"}

\* the manifest writes and the VCS commands that change the repository, in order
sideEffects == SelectSeq(log, LAMBDA e : e.op \in SideEffectOps)

countOf(op) == Len(SelectSeq(log, LAMBDA e : e.op = op))

NothingPersisted ==
  /\ manifests = manifestsBefore
  /\ dirty = {}
  /\ sideEffects = <<>>

\* a requested name is not a package of the workspace
UnknownRequested == \E i \in DOMAIN options.packages : options.packages[i] \notin workspace

\* C12: a run with a requested name that is not a workspace package fails with
\* the Unknown package error in the step that chooses the cascade, the cascade
\* resolver never runs, and no manifest is written and no commit, tag or push
\* is made.
C12_UnknownPackageFails ==
  (InRun /\ UnknownRequested) =>
    /\ step \in {"start", "detect", "cascade"}
    /\ mode = "none" /\ toBump = <<>> /\ reasons = EmptyMap
    /\ NothingPersisted
    /\ step = "cascade" =>
         IF failure = None THEN ENABLED ComputeCascade ELSE failure = UnknownPackage

C12_Witness ==
  /\ InRun
  /\ failure = UnknownPackage
  /\ options.packages = <<"a", "c">>
  /\ ~options.dryRun /\ options.commit /\ options.tag
  /\ changedPackages = workspace

\* C13: when a run fails with the Unknown package error, the change detector
\* has issued no VCS query (tag lookup or diff) for any package.
C13_UnknownBeforeQueries ==
  (InRun /\ failure = UnknownPackage) =>
    \A i \in DOMAIN log : log[i].op \notin {"tag --list", "diff"}

\* C15: a dry run never writes a manifest and never commits, tags or pushes,
\* whatever the other options are and however the run ends.
C15_DryRunNeverPersists ==
  (InRun /\ options.dryRun) =>
    /\ NothingPersisted
    /\ step \notin {"commit", "tag", "push"}

\* the dry run has printed its results and failed while printing the changelog
C15_Witness ==
  /\ InRun
  /\ options.dryRun /\ options.changelog
  /\ options.commit /\ options.tag /\ options.push
  /\ step = "returned"
  /\ failure = VcsFailure
  /\ Len(results) = 2

opRank(op) ==
  CASE op = "write" -> 1 [] op = "commit" -> 2 [] op = "tag" -> 3 [] op = "push" -> 4

\* C18: in a run the side effects come in the order: the manifest writes of all
\* results, one commit, one tag <package>@<newVersion> per BumpResult in the
\* order of the results, then the push; a run that did not create the commit
\* (dry run, commit disabled, no result) creates no tag and does not push.
C18_GitOpsOrder ==
  InRun =>
    /\ \A i, j \in DOMAIN sideEffects :
         i < j => opRank(sideEffects[i].op) <= opRank(sideEffects[j].op)
    /\ countOf("commit") <= 1 /\ countOf("push") <= 1
    /\ countOf("commit") = 1 =>
         /\ countOf("write") = Len(results)
         /\ \A i \in DOMAIN results :
              WriteEvent(results[i].package, results[i].newVersion) \in Range(log)
    /\ countOf("tag") <= Len(results)
    /\ \A k \in DOMAIN tagEvents :
         tagEvents[k] = Event("tag", results[k].package, results[k].newVersion)
    /\ countOf("commit") = 0 => countOf("tag") = 0 /\ countOf("push") = 0
    /\ (options.dryRun \/ ~options.commit \/ results = <<>>) => countOf("commit") = 0
    /\ (countOf("push") = 1 /\ options.tag) => countOf("tag") = Len(results)
    /\ (step = "end" /\ failure = None /\ countOf("commit") = 1) =>
         /\ countOf("tag") = IF options.tag THEN Len(results) ELSE 0
         /\ countOf("push") = IF options.push THEN 1 ELSE 0

C18_Witness ==
  /\ InRun
  /\ step = "end" /\ failure = None
  /\ Len(results) = 2
  /\ [i \in DOMAIN sideEffects |-> sideEffects[i].op] =
       <<"write", "write", "commit", "tag", "tag", "push">>
  /\ Cardinality(tags) = 2

\* ------------------------------------------------------------------------
\* Claims about releases that follow each other
\* ------------------------------------------------------------------------

\* the run that follows a release has computed its ChangeSet
AfterRelease ==
  /\ runs >= 2
  /\ lastRun.released
  /\ step \notin {"start", "detect"}
  /\ diffFailed = {}
  /\ lookupFailed = {}

bumpedLast == {t.package : t \in lastRun.tagged}

\* the marker of a package the release did not tag is the one it was
MarkersOfOthersKept ==
  AfterRelease => \A name \in workspace \ bumpedLast : markers[name] = lastRun.markers[name]

\* a package that was changed and not bumped is still changed
ChangedStayChanged ==
  AfterRelease => \A name \in lastRun.changed \ lastRun.toBump : name \in changedPackages

\* a package the release tagged is compared with the tag the release created
ComparedWithNewTag ==
  AfterRelease => \A t \in lastRun.tagged : markers[t.package] = t

\* C17: the markers are per package and independent across runs: a release
\* that bumps and tags P leaves the marker of every other package Q as it was,
\* a Q that was in the ChangeSet and not in toBump is in the ChangeSet of the
\* next run, and P is compared in the next run with its own new tag.
C17_MarkersIndependent ==
  /\ MarkersOfOthersKept
  /\ ChangedStayChanged
  /\ ComparedWithNewTag

\* ------------------------------------------------------------------------
\* Claims about the failures of detection (checked under SpecDetect)
\* ------------------------------------------------------------------------

\* the tags the detection of this run could have found
tagsAtDetection == tags \ tagsCreated

\* no commit of this run has moved lastTouched yet
AsDetected == countOf("commit") = 0

\* the failures that have used up the fault budget so far
faultsUsed == MaxFaults - faults

\* C22: a failing tag lookup is the same as no tag: the lookup yields no
\* marker, the failure is not the error of the run and the run goes on, and
\* the package is in the ChangeSet exactly when a file of it changed after
\* the first commit, as for a package that was never released.
C22_LookupFailureIsNoMarker ==
  \A name \in lookupFailed :
    /\ markers[name] = NoTag
    /\ step # "start"
    /\ (step = "detect" /\ failure # None) =>
         faultsUsed >= Cardinality(lookupFailed) + Cardinality(diffFailed) + 1
    /\ (AsDetected /\ name \notin diffFailed) =>
         (name \in changedPackages <=> lastTouched[name] > RootCommit)

\* the lookup failed for a package that has a tag on its latest change, and
\* the run ended well with the package bumped
C22_Witness ==
  /\ step = "end"
  /\ failure = None
  /\ \E name \in lookupFailed :
       /\ findLastPackageTag(name, tagsAtDetection) # NoTag
       /\ findLastPackageTag(name, tagsAtDetection).commit = 2
       /\ name \in changedPackages
       /\ name \in Range(toBump)
       /\ \E e \in Range(log) : e.op = "tag" /\ e.package = name

\* ------------------------------------------------------------------------
\* Claims about the dependency graph (checked under SpecGraph)
\* ------------------------------------------------------------------------

Built == pc = "built"

\* every name a dependency section can hold
DependencyNames == Names \cup {"x"}

\* the text is "workspace:" followed by anything
HasWorkspacePrefix(text) ==
  /\ Len(text) >= Len(WorkspacePrefix)
  /\ \A i \in DOMAIN WorkspacePrefix : text[i] = WorkspacePrefix[i]

\* the section of the manifest of P declares D with a workspace specifier
DeclaresLink(P, section, D) ==
  /\ manifests[P][section].present
  /\ \E e \in Range(manifests[P][section].entries) :
       e.name = D /\ e.version.type = "string" /\ HasWorkspacePrefix(e.version.text)

\* the section declares D with some other specifier
DeclaresOther(P, section, D) ==
  /\ manifests[P][section].present
  /\ \E e \in Range(manifests[P][section].entries) :
       e.name = D /\ ~(e.version.type = "string" /\ HasWorkspacePrefix(e.version.text))

\* C23: for every package P given to the builder, the graph has the edge
\* P -> D iff one of the three dependency sections of P declares D with a
\* specifier that starts with "workspace:"; a dependency with registry ranges
\* only is no edge; D may be private or no package of the workspace.
C23_EdgesAreWorkspaceLinks ==
  Built =>
    /\ graph = buildDependencyGraph(getPublicPackages(packages).packages)
    /\ \A i \in DOMAIN graph : \A D \in DependencyNames :
         D \in Range(graph[i].dependencies) <=>
           \E section \in Range(dependencySections) :
             DeclaresLink(graph[i].name, section, D)

\* the graph has an edge to a private package and one to a name outside the
\* workspace, and leaves out a dependency declared with a registry range
C23_Witness ==
  /\ Built
  /\ \E i \in DOMAIN graph : \E D \in Names :
       isPrivate(D) /\ D \in Range(graph[i].dependencies)
  /\ \E i \in DOMAIN graph : "x" \in Range(graph[i].dependencies)
  /\ \E i \in DOMAIN graph : \E D \in Names :
       /\ D \notin Range(graph[i].dependencies)
       /\ \E section \in Range(dependencySections) : DeclaresOther(graph[i].name, section, D)

\* ------------------------------------------------------------------------
\* Claims about sequences of bumps (checked under SpecBump)
\* ------------------------------------------------------------------------

\* C24: the versions are closed under bumping: a call on a version that
\* parseVersion accepts does not throw and returns a version that parseVersion
\* accepts, so neither does any later call of the sequence; the result is
\* either a stable text or a prerelease text, never both, and the number of
\* a prerelease result is at least 1.
C24_BumpClosed ==
  BumpedValid =>
    /\ ~bumpThrew
    /\ ~new.threw
    /\ IsStableShape(version) # IsPrereleaseShape(version)
    /\ hasPrerelease(new) <=> IsPrereleaseShape(version)
    /\ hasPrerelease(new) => new.prerelease.num >= 1

\* a second call of a sequence, on the prerelease with number 1 that the
\* first call returned
C24_Witness ==
  /\ bumps >= 2
  /\ ~bumpThrew
  /\ hasPrerelease(old)
  /\ old.prerelease.num = 1
  /\ hasPrerelease(new)
  /\ new.prerelease.num = 2

\* alpha < beta < rc
channelRank(channel) ==
  CASE channel = "alpha" -> 1
    [] channel = "beta" -> 2
    [] channel = "rc" -> 3

\* semver precedence of two parsed versions: v is lower than w
precedes(v, w) ==
  IF v.major # w.major THEN v.major < w.major
  ELSE IF v.minor # w.minor THEN v.minor < w.minor
  ELSE IF v.patch # w.patch THEN v.patch < w.patch
  ELSE IF ~hasPrerelease(v) THEN FALSE
  ELSE IF ~hasPrerelease(w) THEN TRUE
  ELSE IF v.prerelease.type # w.prerelease.type
  THEN channelRank(v.prerelease.type) < channelRank(w.prerelease.type)
  ELSE v.prerelease.num < w.prerelease.num

\* the directive names a channel below the channel of the version it is applied to
ChannelLowered ==
  /\ hasPrerelease(old)
  /\ bumpType \in PrereleaseTypes
  /\ channelRank(bumpType) < channelRank(old.prerelease.type)

\* C25: the result of bumping a valid version is strictly greater than the
\* version in semver precedence, for every directive.
C25_BumpIncreases ==
  BumpedValid => precedes(old, new)

\* the result is greater whenever the directive does not lower the channel
BumpIncreasesUnlessLowered ==
  (BumpedValid /\ ~ChannelLowered) => precedes(old, new)

\* ------------------------------------------------------------------------
\* Claims about a run right after a release (checked under SpecRelease)
\* ------------------------------------------------------------------------

\* an auto-detect run that follows a release without a commit in between and
\* has computed its cascade
RightAfterRelease ==
  /\ AfterRelease
  /\ step # "cascade"
  /\ options.packages = <<>>
  /\ AsDetected
  /\ \A t \in lastRun.tagged : t.commit = head

\* C26: run again right after a successful release, without new commits, the
\* auto-detect run finds no package the release bumped in its ChangeSet, the
\* marker of each being the tag just created on HEAD, and bumps none of them.
C26_ReleaseIdempotent ==
  RightAfterRelease =>
    \A t \in lastRun.tagged :
      /\ markers[t.package] = t
      /\ t.package \notin changedPackages
      /\ t.package \notin Range(toBump)

\* a package the release bumped is bumped again only when the lookup of some
\* bumped package did not return the tag the release created
RebumpedOnlyWithOldMarker ==
  (RightAfterRelease /\ ComparedWithNewTag) =>
    \A t \in lastRun.tagged :
      t.package \notin changedPackages /\ t.package \notin Range(toBump)

\* ------------------------------------------------------------------------
\* Claims about the reasons of the cascade (checked under Spec)
\* ------------------------------------------------------------------------

\* the requested packages that are public
specifiedPublicSet == Range(specifiedPackages) \cap PublicNames

\* the package of toBump that pulled D in: the first one, in the order of
\* toBump, that has an entry in the graph and declares D
firstRequester(D) ==
  toBump[CHOOSE i \in DOMAIN toBump :
           /\ graphHas(graph, toBump[i]) /\ D \in declaredDeps(toBump[i])
           /\ \A j \in 1..(i - 1) :
                ~(graphHas(graph, toBump[j]) /\ D \in declaredDeps(toBump[j]))]

\* C27: the returned reasons map has exactly the packages of toBump as its
\* keys, in both modes, and a recorded reason is never replaced: in downward
\* mode a requested package keeps Specified, also when it is a changed
\* dependency of a package of toBump, and a pulled-in dependency keeps
\* DependencyOf of the first package that pulled it in.
C27_ReasonsMatchToBump ==
  /\ []((Done /\ mode # "none") => DOMAIN reasons = toBumpSet)
  /\ [](mode = "downward" =>
         /\ DOMAIN reasons = toBumpSet
         /\ \A P \in toBumpSet :
              reasons[P] = IF P \in specifiedPublicSet THEN reasonSpecified
                           ELSE reasonDependencyOf(firstRequester(P)))
  /\ [][\A P \in DOMAIN reasons : P \in DOMAIN reasons' /\ reasons'[P] = reasons[P]]_vars

\* a requested package is a changed dependency of a package of toBump, and a
\* pulled-in dependency is declared by two packages of toBump
C27_Witness ==
  /\ Done
  /\ mode = "downward"
  /\ \E P \in specifiedPublicSet : \E Q \in toBumpSet \ {P} :
       P \in changedPackages /\ P \in declaredDeps(Q) /\ graphHas(graph, Q)
  /\ \E D \in toBumpSet \ specifiedPublicSet : \E Q \in toBumpSet \ {D} :
       /\ Q # firstRequester(D)
       /\ graphHas(graph, Q)
       /\ D \in declaredDeps(Q)

\* ------------------------------------------------------------------------
\* Claims about the iteration order of the cascade (checked under Spec)
\* ------------------------------------------------------------------------

\* the orders in which the members of a duplicate-free sequence can be iterated
Reorder(seq) == {t \in [1..Len(seq) -> Range(seq)] : Range(t) = Range(seq)}

\* the graph with the dependencies of each package in every order
RECURSIVE DependencyOrders(_, _)
DependencyOrders(g, i) ==
  IF i > Len(g) THEN {<<>>}
  ELSE {<<[name |-> g[i].name, dependencies |-> deps]>> \o rest :
          deps \in Reorder(g[i].dependencies), rest \in DependencyOrders(g, i + 1)}

\* the graph with its packages and the dependencies of each in every order
IterationOrders(g) == UNION {Reorder(g2) : g2 \in DependencyOrders(g, 1)}

\* the upward cascade run over the graph g2 from the same changed packages
upwardOver(g2) ==
  findDependents(g2,
    [allAffected |-> SelectSeq(PackageNames,
                       LAMBDA n : n \in changedPublicOf(packages, changedPackages)),
     dependencyReasons |-> EmptyMap,
     hasChanges |-> TRUE])

\* the downward cascade run over the graph g2 from the requested packages in
\* the order requested
downwardOver(g2, requested) ==
  changedDepsLoop(g2, changedPackages,
    [toBump |-> requested,
     reasons |-> [pkgName \in Range(requested) |-> reasonSpecified],
     hasChanges |-> TRUE])

positionOf(seq, x) == CHOOSE i \in DOMAIN seq : seq[i] = x

\* the first dependency of P, in the order of its dependencies, that was in
\* toBump before P
firstAffectedBefore(P) ==
  LET deps == workspaceDeps[P]
      before == SubSeq(toBump, 1, positionOf(toBump, P) - 1)
  IN  deps[CHOOSE i \in DOMAIN deps :
             /\ has(before, deps[i])
             /\ \A j \in 1..(i - 1) : ~has(before, deps[j])]

\* C28: the set toBump does not depend on the iteration order: the upward
\* cascade, and the downward cascade for the same requested set, return the
\* same set for every order of the packages and of the dependencies of each;
\* the trigger of a cascaded package is the first of its dependencies, in
\* iteration order, that is in toBump when the package is visited.
C28_OrderIndependent ==
  /\ (Done /\ mode = "upward") =>
       /\ \A g2 \in IterationOrders(graph) :
            Range(upwardOver(g2).allAffected) = toBumpSet
       /\ \A P \in DOMAIN dependencyReasons :
            dependencyReasons[P] = firstAffectedBefore(P)
  /\ (Done /\ mode = "downward") =>
       \A g2 \in IterationOrders(graph) :
         \A requested \in Reorder(specifiedPublicOf(packages, specifiedPackages)) :
           Range(downwardOver(g2, requested).toBump) = toBumpSet

\* a cascaded package with two qualifying dependencies gets another trigger
\* in another iteration order
C28_Witness ==
  /\ Done
  /\ mode = "upward"
  /\ \E P \in DOMAIN dependencyReasons :
       /\ Cardinality(declaredDeps(P) \cap toBumpSet) >= 2
       /\ \E g2 \in IterationOrders(graph) :
            upwardOver(g2).dependencyReasons[P] # dependencyReasons[P]

\* ------------------------------------------------------------------------
\* Claims about a failing diff (checked under SpecDetect)
\* ------------------------------------------------------------------------

\* a file of the package changed after the commit its marker stands for
reallyChanged(name) == lastTouched[name] > rangeStart(markers[name])

\* C29: a failing diff (or realpath) of a package is swallowed: the package is
\* left out of the ChangeSet, the failure is not the error of the run,
\* detection goes on with the other packages, which are in the ChangeSet
\* exactly when they changed, and the run can end well without bumping it.
C29_DiffFailureIsUnchanged ==
  \A name \in diffFailed :
    /\ name \notin changedPackages
    /\ step # "start"
    /\ (step = "detect" /\ failure # None) =>
         faultsUsed >= Cardinality(lookupFailed) + Cardinality(diffFailed) + 1
    /\ AsDetected =>
         \A other \in workspace \ diffFailed :
           other \in changedPackages <=> reallyChanged(other)
    /\ (mode = "upward" /\ changedPackages = {}) => toBump = <<>>

\* the diff failed for a package that has changes, and the run ended well,
\* released another package and left this one as it was
C29_Witness ==
  /\ step = "end"
  /\ failure = None
  /\ countOf("commit") = 1
  /\ \E name \in diffFailed :
       /\ lastTouched[name] > rangeStart(markers[name])
       /\ name \notin Range(toBump)
       /\ manifests[name] = manifestsBefore[name]

\* ------------------------------------------------------------------------
\* Claims about the concurrent updates of part_005 (checked under SpecPlanner)
\* ------------------------------------------------------------------------

\* the manifest of a package of toBump after the update of the loop of
\* Bump.ts, computed from the manifest and the snapshot version the call
\* started with
updated(pkg) ==
  updatePackageVersion(manifestsBefore[pkg.name],
                       bumpVersion(pkg.version, options.type).value)

\* the manifests a call that writes every package of toBump ends with
allUpdated ==
  [name \in Names |->
     IF name \in Range(toBump)
     THEN updated(packages[CHOOSE i \in DOMAIN packages : packages[i].name = name])
     ELSE manifestsBefore[name]]

\* the manifests that differ from what the call started with
writtenManifests == {name \in Names : manifests[name] # manifestsBefore[name]}

\* C30: bumpPackages of part_005: (a) with an invalid version in toBump no
\* manifest is written and no update is started; (b) the updates are one per
\* package of toBump, each on the manifest of its own package, and when all
\* have succeeded the manifests are the same whatever the order of the reads
\* and writes was, and the same as after the loop of Bump.ts; (c) after a
\* failed update the call is still at its updates, the updates that have not
\* read can read, an update between its read and its write keeps what it
\* read, a step ends one update only, every update but the failed ones has
\* written when all have settled, and what has been written stays written.
C30_ConcurrentUpdates ==
  /\ []((variant = "part_005" /\ failure = InvalidVersion) =>
         (manifests = manifestsBefore /\ pending = {} /\ log = <<>>))
  /\ [](variant = "part_005" =>
         /\ pending \subseteq Range(toBump)
         /\ DOMAIN inFlight \subseteq pending
         /\ \A name \in DOMAIN inFlight : inFlight[name] = manifestsBefore[name]
         /\ \A name \in Names :
              manifests[name] \in {manifestsBefore[name], allUpdated[name]})
  /\ []((Returned_bumpPackages /\ ~options.dryRun) => manifests = allUpdated)
  /\ []((variant = "part_005" /\ failure = ManifestFailure) =>
         /\ step = "bump"
         /\ pending \ DOMAIN inFlight # {} => ENABLED UpdateReads
         /\ pending = {} =>
              Cardinality(Range(toBump) \ writtenManifests) <= faultsUsed)
  /\ [][\A name \in writtenManifests : manifests'[name] = manifests[name]]_vars
  /\ [][(variant = "part_005" /\ failure' = ManifestFailure) =>
           /\ Cardinality(pending \ pending') <= 1
           /\ \A name \in DOMAIN inFlight \cap pending' :
                name \in DOMAIN inFlight' /\ inFlight'[name] = inFlight[name]]_vars

\* one update has failed and the two others have written their manifests, one
\* of them after it had read while the other was between its read and write
C30_Witness ==
  /\ variant = "part_005"
  /\ failure = ManifestFailure
  /\ pending = {}
  /\ Len(toBump) = 3
  /\ Cardinality(writtenManifests) = 2
  /\ Len(log) = 2

====
